---- MODULE Spec2Model ----
(***************************************************************************)
(* Model of the bordered text-layout engine of nfo_gen/nfo_template.py.    *)
(*                                                                         *)
(* A Python str is modelled as a sequence of one-character strings, a      *)
(* list of str as a sequence of such sequences.  The builtins the engine   *)
(* calls (slicing, str.center, str.ljust, str.strip, str.split,            *)
(* textwrap.wrap, str.join, str.rstrip) are operators that compute what    *)
(* CPython computes.  Tabs are left out of the alphabet, so the tab        *)
(* expansion of textwrap is not modelled.                                  *)
(***************************************************************************)
EXTENDS Integers, Sequences, FiniteSets, TLC

VARIABLES pc, args, ret, lines, idx, heap, framed, section_list, manual_sections, edits, refreshes, by_hand,
          cache, network, attempt, last_error, calls

vars == <<pc, args, ret, lines, idx, heap, framed, section_list, manual_sections, edits, refreshes, by_hand,
          cache, network, attempt, last_error, calls>>

\* the state of the interactive loop of cli.main, untouched by the other operations
cli_vars == <<section_list, manual_sections, edits, refreshes, by_hand>>

NoCli == section_list = <<>> /\ manual_sections = {} /\ edits = 0 /\ refreshes = 0 /\ by_hand = {}

\* the state of the provider clients, untouched by the other operations
net_vars == <<cache, network, attempt, last_error, calls>>

NoNet == cache = <<>> /\ network = <<>> /\ attempt = 0 /\ last_error = "None" /\ calls = 0

(***************************************************************************)
(* Bounds of the model.                                                    *)
(***************************************************************************)
\* longest enumerated text handed to _format_line
MaxLen == 4
\* widest enumerated target width of _format_line
MaxWidth == 15
\* most negative target width of _format_line is -MaxNegWidth
MaxNegWidth == 3
\* longest enumerated section title handed to _build_separator
MaxTitleLen == 4
\* longest middle rule of the enumerated separator templates
MaxMiddle == 7
\* most lines of a section handed to _frame_section_lines
MaxLines == 2
\* longest top rule of the templates handed to _frame_section_lines
MaxTop == 11
\* most pad spaces handed to _frame_section_lines
MaxPad == 1
\* most sections handed to render_nfo_from_sections
MaxSections == 2
\* most motif-body lines handed to _extract_motifs
MaxBody == 3
\* most tokens of a file name handed to parse_filename
MaxTokens == 3

(***************************************************************************)
(* Python str and list primitives.                                         *)
(***************************************************************************)
Min(a, b) == IF a <= b THEN a ELSE b
Max(a, b) == IF a >= b THEN a ELSE b

NL == "\n"
Whitespace == {" ", NL}

Rep(c, n) == [i \in 1..Max(n, 0) |-> c]
Spaces(n) == Rep(" ", n)

\* s[:n] that cuts one character too few
SliceTo_off_by_one(s, n) == SubSeq(s, 1, Min(Max(n, 0) + 1, Len(s)))

\* s[:n], n of either sign
SliceTo(s, n) ==
    IF n >= 0 THEN SubSeq(s, 1, Min(n, Len(s)))
    ELSE SubSeq(s, 1, Max(Len(s) + n, 0))

\* s[-n:], n > 0
SliceLast(s, n) == SubSeq(s, Max(Len(s) - n, 0) + 1, Len(s))

\* str.center with the odd space always on the right
center_extra_right(s, width) ==
    IF width <= Len(s) THEN s
    ELSE LET marg == width - Len(s)
         IN  Spaces(marg \div 2) \o s \o Spaces(marg - (marg \div 2))

\* str.center(width): CPython pads left with marg/2 + (marg & width & 1)
center(s, width) ==
    IF width <= Len(s) THEN s
    ELSE LET marg == width - Len(s)
             left == (marg \div 2) + (IF marg % 2 = 1 /\ width % 2 = 1 THEN 1 ELSE 0)
         IN  Spaces(left) \o s \o Spaces(marg - left)

\* str.ljust(width)
ljust(s, width) == s \o Spaces(width - Len(s))

IsBlank(s) == \A i \in 1..Len(s) : s[i] \in Whitespace

\* str.strip()
strip(s) ==
    IF IsBlank(s) THEN <<>>
    ELSE LET first == CHOOSE i \in 1..Len(s) :
                         s[i] \notin Whitespace /\ \A j \in 1..(i - 1) : s[j] \in Whitespace
             last  == CHOOSE i \in 1..Len(s) :
                         s[i] \notin Whitespace /\ \A j \in (i + 1)..Len(s) : s[j] \in Whitespace
         IN  SubSeq(s, first, last)

\* c in s
Contains(s, c) == \E i \in 1..Len(s) : s[i] = c

\* index of the last occurrence of c in s, as str.rsplit(":", 1) would cut
IndexOfLast(s, c) == CHOOSE i \in 1..Len(s) : s[i] = c /\ \A j \in (i + 1)..Len(s) : s[j] # c

\* index of the first occurrence of c in s (s contains c)
IndexOf(s, c) == CHOOSE i \in 1..Len(s) : s[i] = c /\ \A j \in 1..(i - 1) : s[j] # c

(***************************************************************************)
(* _format_line: dot-leader or centered line of the target width.          *)
(***************************************************************************)
\* the dot run without its minimum of two
dot_width_no_minimum(usable, key, value) == usable - Len(key) - Len(value)

\* dot_width = max(2, usable - len(key) - len(value))
dot_width(usable, key, value) == Max(2, usable - Len(key) - Len(value))

\* a formatter whose overflow cut keeps the end of the combined line
_format_line_keep_value(line, width, use_dots) ==
    IF use_dots /\ Contains(line, ":")
    THEN LET at     == IndexOf(line, ":")
             key    == strip(SubSeq(line, 1, at - 1))
             value  == strip(SubSeq(line, at + 1, Len(line)))
         IN  IF value = <<>>
             THEN center(SliceTo(key, width), width)
             ELSE LET usable    == width - 10
                      key2      == SliceTo(key, usable)
                      value2    == SliceTo(value, usable)
                      dots      == Rep(".", dot_width(usable, key2, value2))
                      combined  == Spaces(5) \o key2 \o dots \o value2 \o Spaces(5)
                  IN  ljust(SliceLast(combined, width), width)
    ELSE center(SliceTo(line, width), width)

_format_line(line, width, use_dots) ==
    IF use_dots /\ Contains(line, ":")
    THEN LET at     == IndexOf(line, ":")
             key    == strip(SubSeq(line, 1, at - 1))
             value  == strip(SubSeq(line, at + 1, Len(line)))
         IN  IF value = <<>>
             THEN center(SliceTo(key, width), width)
             ELSE LET left_pad  == Spaces(5)
                      right_pad == Spaces(5)
                      usable    == width - Len(left_pad) - Len(right_pad)
                      key2      == SliceTo(key, usable)
                      value2    == SliceTo(value, usable)
                      dots      == Rep(".", dot_width(usable, key2, value2))
                      combined  == left_pad \o key2 \o dots \o value2 \o right_pad
                  IN  ljust(SliceTo(combined, width), width)
    ELSE center(SliceTo(line, width), width)

(***************************************************************************)
(* _build_separator: the three-line titled separator.                      *)
(***************************************************************************)
\* _build_separator with the title centered but never truncated
_build_separator_untruncated(title, template_lines) ==
    IF Len(template_lines) < 3 THEN <<>>
    ELSE LET top    == template_lines[1]
             middle == template_lines[2]
             bottom == template_lines[3]
         IN  IF Len(middle) < 2 THEN <<top, middle, bottom>>
             ELSE LET inner_width == Len(middle) - 2
                      centered    == center(title, inner_width)
                  IN  <<top, <<middle[1]>> \o centered \o <<middle[Len(middle)]>>, bottom>>

\* _build_separator giving up only on an empty middle line
_build_separator_short_guard(title, template_lines) ==
    IF Len(template_lines) < 3 THEN <<>>
    ELSE LET top    == template_lines[1]
             middle == template_lines[2]
             bottom == template_lines[3]
         IN  IF Len(middle) < 1 THEN <<top, middle, bottom>>
             ELSE LET inner_width == Len(middle) - 2
                      safe_title  == SliceTo(title, inner_width)
                      centered    == center(safe_title, inner_width)
                  IN  <<top, <<middle[1]>> \o centered \o <<middle[Len(middle)]>>, bottom>>

_build_separator(title, template_lines) ==
    IF Len(template_lines) < 3 THEN <<>>
    ELSE LET top    == template_lines[1]
             middle == template_lines[2]
             bottom == template_lines[3]
         IN  IF Len(middle) < 2 THEN <<top, middle, bottom>>
             ELSE LET inner_width == Len(middle) - 2
                      safe_title  == SliceTo(title, inner_width)
                      centered    == center(safe_title, inner_width)
                  IN  <<top, <<middle[1]>> \o centered \o <<middle[Len(middle)]>>, bottom>>

(***************************************************************************)
(* textwrap.wrap(text, width, break_long_words=False,                      *)
(* break_on_hyphens=False), for width > 0.                                 *)
(***************************************************************************)
\* TextWrapper._munge_whitespace: every whitespace character becomes a space
munge_whitespace(text) ==
    [i \in 1..Len(text) |-> IF text[i] \in Whitespace THEN " " ELSE text[i]]

\* length of the longest prefix of s made of characters of the class of s[1]
RunLength(s) ==
    CHOOSE n \in 1..Len(s) :
        /\ \A i \in 1..n : (s[i] \in Whitespace) = (s[1] \in Whitespace)
        /\ n < Len(s) => (s[n + 1] \in Whitespace) # (s[1] \in Whitespace)

RECURSIVE split_chunks_at_hyphens(_)
\* TextWrapper._split with break_on_hyphens=True: a chunk also ends after a
\* hyphen that stands inside a word
split_chunks_at_hyphens(text) ==
    IF text = <<>> THEN <<>>
    ELSE LET n    == RunLength(text)
             cuts == {i \in 2..(n - 1) : text[i] = "-"}
             m    == IF text[1] \in Whitespace \/ cuts = {} THEN n
                     ELSE CHOOSE i \in cuts : \A j \in cuts : i <= j
         IN  <<SubSeq(text, 1, m)>> \o split_chunks_at_hyphens(SubSeq(text, m + 1, Len(text)))

RECURSIVE split_chunks(_)
\* TextWrapper._split with wordsep_simple_re: runs of whitespace and runs of
\* other characters, in order; a hyphen does not end a chunk
split_chunks(text) ==
    IF text = <<>> THEN <<>>
    ELSE LET n == RunLength(text)
         IN  <<SubSeq(text, 1, n)>> \o split_chunks(SubSeq(text, n + 1, Len(text)))

RECURSIVE Concat(_)
\* "".join(list)
Concat(list) == IF list = <<>> THEN <<>> ELSE Head(list) \o Concat(Tail(list))

RECURSIVE TotalLen(_)
TotalLen(list) == IF list = <<>> THEN 0 ELSE Len(Head(list)) + TotalLen(Tail(list))

\* a wrap that cuts a word too long for a line (break_long_words=True)
handle_long_word_breaking(chunks, cur_line, width) ==
    IF cur_line = <<>>
    THEN [cur_line |-> <<SubSeq(chunks[1], 1, width)>>,
          chunks   |-> <<SubSeq(chunks[1], width + 1, Len(chunks[1]))>> \o Tail(chunks)]
    ELSE [cur_line |-> cur_line, chunks |-> chunks]

\* TextWrapper._handle_long_word with break_long_words=False: the word that
\* fits on no line is put, whole, on a line of its own
handle_long_word(chunks, cur_line, width) ==
    IF cur_line = <<>>
    THEN [cur_line |-> <<chunks[1]>>, chunks |-> Tail(chunks)]
    ELSE [cur_line |-> cur_line, chunks |-> chunks]

RECURSIVE wrap_chunks(_, _, _)
\* TextWrapper._wrap_chunks: one pass of its outer loop per call
wrap_chunks(chunks, width, done) ==
    IF chunks = <<>> THEN done
    ELSE LET \* a line after the first never starts with whitespace
             rest0 == IF IsBlank(chunks[1]) /\ done # <<>> THEN Tail(chunks) ELSE chunks
             \* the chunks that fit, taken greedily
             taken == CHOOSE k \in 0..Len(rest0) :
                         /\ TotalLen(SubSeq(rest0, 1, k)) <= width
                         /\ k < Len(rest0) => TotalLen(SubSeq(rest0, 1, k + 1)) > width
             cur0  == SubSeq(rest0, 1, taken)
             rest1 == SubSeq(rest0, taken + 1, Len(rest0))
             long  == IF rest1 # <<>> /\ Len(rest1[1]) > width
                      THEN handle_long_word(rest1, cur0, width)
                      ELSE [cur_line |-> cur0, chunks |-> rest1]
             cur1  == long.cur_line
             \* whitespace at the end of the line is dropped
             cur2  == IF cur1 # <<>> /\ IsBlank(cur1[Len(cur1)])
                      THEN SubSeq(cur1, 1, Len(cur1) - 1) ELSE cur1
         IN  wrap_chunks(long.chunks, width,
                         IF cur2 # <<>> THEN Append(done, Concat(cur2)) ELSE done)

textwrap_wrap(text, width) == wrap_chunks(split_chunks(munge_whitespace(text)), width, <<>>)

(***************************************************************************)
(* _extract_motifs: the (left, right) border fragments.                    *)
(***************************************************************************)
RECURSIVE _extract_motifs_from_length_3(_)
\* _extract_motifs keeping every line that holds one fragment
_extract_motifs_from_length_3(body) ==
    IF body = <<>> THEN <<>>
    ELSE LET line == Head(body)
         IN  (IF Len(line) < 3 THEN <<>>
              ELSE <<[left |-> SliceTo(line, 3), right |-> SliceLast(line, 3)]>>)
             \o _extract_motifs_from_length_3(Tail(body))

RECURSIVE _extract_motifs(_)
_extract_motifs(body) ==
    IF body = <<>> THEN <<>>
    ELSE LET line == Head(body)
         IN  (IF Len(line) < 6 THEN <<>>
              ELSE <<[left |-> SliceTo(line, 3), right |-> SliceLast(line, 3)]>>)
             \o _extract_motifs(Tail(body))

(***************************************************************************)
(* _frame_section_lines: the framed lines of one section, or the           *)
(* ValueError that textwrap.wrap raises for a width <= 0.                  *)
(***************************************************************************)
NoRet == [tag |-> "none", val |-> <<>>]
Returned(v) == [tag |-> "ok", val |-> v]
Raised(e) == [tag |-> "raised", val |-> e]

\* inner_width = width - len(sample_left) - len(sample_right) - pad * 2
inner_width_of(template_lines, motifs, pad) ==
    Len(template_lines[1]) - Len(motifs[1].left) - Len(motifs[1].right) - (pad * 2)

RECURSIVE cleaned_lines_empty_only(_)
\* the filter "if line" alone: whitespace-only lines are kept
cleaned_lines_empty_only(section_lines) ==
    IF section_lines = <<>> THEN <<>>
    ELSE (IF Head(section_lines) # <<>> THEN <<Head(section_lines)>> ELSE <<>>)
         \o cleaned_lines_empty_only(Tail(section_lines))

\* cleaned = [line for line in lines if line and line.strip()]
RECURSIVE cleaned_lines(_)
cleaned_lines(section_lines) ==
    IF section_lines = <<>> THEN <<>>
    ELSE (IF Head(section_lines) # <<>> /\ ~IsBlank(Head(section_lines))
          THEN <<Head(section_lines)>> ELSE <<>>)
         \o cleaned_lines(Tail(section_lines))

\* pad lines that are added only around a section that has content
render_lines_of_content_only(section_lines, add_pad_lines) ==
    IF add_pad_lines /\ cleaned_lines(section_lines) # <<>>
    THEN <<<<>>>> \o cleaned_lines(section_lines) \o <<<<>>>>
    ELSE cleaned_lines(section_lines)

\* the lines to render; a pad_token ends up as the empty line
render_lines_of(section_lines, add_pad_lines) ==
    IF add_pad_lines
    THEN <<<<>>>> \o cleaned_lines(section_lines) \o <<<<>>>>
    ELSE cleaned_lines(section_lines)

\* the physical chunks of one logical line
chunks_of(line, wrap, inner_width) ==
    IF wrap
    THEN LET chunks == textwrap_wrap(line, inner_width)
         IN  IF chunks = <<>> THEN <<<<>>>> ELSE chunks
    ELSE <<line>>

RECURSIVE all_chunks(_, _, _)
all_chunks(render_lines, wrap, inner_width) ==
    IF render_lines = <<>> THEN <<>>
    ELSE chunks_of(Head(render_lines), wrap, inner_width)
         \o all_chunks(Tail(render_lines), wrap, inner_width)

\* a frame that does not hand the chunk to _format_line
frame_chunk_unformatted(chunk, line_idx, motifs, inner_width, pad, use_dots) ==
    LET motif == motifs[(line_idx % Len(motifs)) + 1]
    IN  motif.left \o Spaces(pad) \o ljust(chunk, inner_width) \o Spaces(pad) \o motif.right

\* a frame that takes the first motif for every physical line
frame_chunk_first_motif(chunk, line_idx, motifs, inner_width, pad, use_dots) ==
    LET motif     == motifs[1]
        safe_line == _format_line(chunk, inner_width, use_dots /\ Contains(chunk, ":"))
        pad_str   == Spaces(pad)
    IN  motif.left \o pad_str \o safe_line \o pad_str \o motif.right

\* one physical line: left + pad + formatted chunk + pad + right
frame_chunk(chunk, line_idx, motifs, inner_width, pad, use_dots) ==
    LET motif     == motifs[(line_idx % Len(motifs)) + 1]
        safe_line == _format_line(chunk, inner_width, use_dots /\ Contains(chunk, ":"))
        pad_str   == Spaces(pad)
    IN  motif.left \o pad_str \o safe_line \o pad_str \o motif.right

\* a framer whose pass-through path drops the blank lines
_frame_section_lines_cleaned(section_lines, template_lines, wrap, pad, use_dots, add_pad_lines) ==
    IF Len(template_lines) < 4 THEN Returned(cleaned_lines(section_lines))
    ELSE LET motifs == _extract_motifs(SubSeq(template_lines, 4, Len(template_lines)))
         IN  IF motifs = <<>> THEN Returned(cleaned_lines(section_lines))
             ELSE LET inner_width  == inner_width_of(template_lines, motifs, pad)
                      render_lines == render_lines_of(section_lines, add_pad_lines)
                  IN  IF wrap /\ render_lines # <<>> /\ inner_width <= 0
                      THEN Raised("ValueError")
                      ELSE LET chunks == all_chunks(render_lines, wrap, inner_width)
                           IN  Returned([i \in 1..Len(chunks) |->
                                   frame_chunk(chunks[i], i - 1, motifs,
                                               inner_width, pad, use_dots)])

_frame_section_lines(section_lines, template_lines, wrap, pad, use_dots, add_pad_lines) ==
    IF Len(template_lines) < 4 THEN Returned(section_lines)
    ELSE LET motifs == _extract_motifs(SubSeq(template_lines, 4, Len(template_lines)))
         IN  IF motifs = <<>> THEN Returned(section_lines)
             ELSE LET inner_width  == inner_width_of(template_lines, motifs, pad)
                      render_lines == render_lines_of(section_lines, add_pad_lines)
                  IN  IF wrap /\ render_lines # <<>> /\ inner_width <= 0
                      THEN Raised("ValueError")
                      ELSE LET chunks == all_chunks(render_lines, wrap, inner_width)
                           IN  Returned([i \in 1..Len(chunks) |->
                                   frame_chunk(chunks[i], i - 1, motifs,
                                               inner_width, pad, use_dots)])

(***************************************************************************)
(* render_nfo_from_sections: the document assembler.  A section is a       *)
(* record [name, lines]; the three banners are what _read_banner returned  *)
(* (the empty list for a missing file).                                    *)
(***************************************************************************)
HeaderName == <<"H", "e", "a", "d", "e", "r">>
SummaryName == <<"S", "u", "m", "m", "a", "r", "y">>
GeneralName == <<"G", "e", "n", "e", "r", "a", "l">>

\* the Header section is framed with wrap, without dots and pad lines
frame_header(section, separator_template) ==
    _frame_section_lines(section.lines, separator_template, TRUE, 1, FALSE, FALSE)

\* what the first loop adds for one section: framed_header if framed_header
\* else section_lines
header_lines_of(section, separator_template) ==
    LET framed_header == frame_header(section, separator_template)
    IN  IF framed_header.val # <<>> THEN framed_header.val ELSE section.lines

\* a second loop that frames every section as it frames Summary
frame_section_as_summary(section, separator_template) ==
    _frame_section_lines(section.lines, separator_template, TRUE, 1, FALSE, TRUE)

\* the framing of a section of the second loop
frame_section(section, separator_template) ==
    _frame_section_lines(section.lines, separator_template,
                         section.name = SummaryName, 1,
                         section.name # SummaryName, TRUE)

\* a separator that falls back to nothing
separator_lines_or_nothing(section, separator_template) ==
    _build_separator(section.name, separator_template)

\* the separator of a section, or its bare name
separator_lines_of(section, separator_template) ==
    LET separator == _build_separator(section.name, separator_template)
    IN  IF separator # <<>> THEN separator ELSE <<section.name>>

\* a footer that always gets its blank line
footer_lines_always_blank(emitted, footer_banner) ==
    IF footer_banner # <<>> THEN (emitted \o <<<<>>>>) \o footer_banner ELSE emitted

\* the lines after the footer step
footer_lines_of(emitted, footer_banner) ==
    IF footer_banner # <<>>
    THEN (IF emitted # <<>> /\ emitted[Len(emitted)] # <<>>
          THEN Append(emitted, <<>>) ELSE emitted) \o footer_banner
    ELSE emitted

RECURSIVE join_lines(_)
\* "\n".join(lines)
join_lines(list) ==
    IF list = <<>> THEN <<>>
    ELSE IF Len(list) = 1 THEN list[1]
    ELSE list[1] \o <<NL>> \o join_lines(Tail(list))

\* str.rstrip() taken as stripping the spaces only, the line feeds kept
rstrip_spaces_only(s) ==
    IF \A i \in 1..Len(s) : s[i] = " " THEN <<>>
    ELSE LET last == CHOOSE i \in 1..Len(s) :
                        s[i] # " " /\ \A j \in (i + 1)..Len(s) : s[j] = " "
         IN  SubSeq(s, 1, last)

\* str.rstrip()
rstrip(s) ==
    IF IsBlank(s) THEN <<>>
    ELSE LET last == CHOOSE i \in 1..Len(s) :
                        s[i] \notin Whitespace /\ \A j \in (i + 1)..Len(s) : s[j] \in Whitespace
         IN  SubSeq(s, 1, last)

\* the returned document
document_of(emitted) == Append(rstrip(join_lines(emitted)), NL)

(***************************************************************************)
(* Inputs of the calls.                                                    *)
(***************************************************************************)
RECURSIVE StringsOver(_, _)
\* every string over the alphabet of length at most n
StringsOver(alphabet, n) ==
    IF n = 0 THEN {<<>>}
    ELSE LET shorter == StringsOver(alphabet, n - 1)
         IN  shorter \cup {Append(s, c) : s \in shorter, c \in alphabet}

FormatAlphabet == {"a", " ", ":", "."}

\* "Key: Value", the line of the dot-leader property of the spec
KeyValueLine == <<"K", "e", "y", ":", " ", "V", "a", "l", "u", "e">>

FormatTexts == StringsOver(FormatAlphabet, MaxLen)
FormatWidths == (0 - MaxNegWidth)..MaxWidth

TitleTexts == StringsOver({"a", "b"}, MaxTitleLen)

\* a separator template of n lines whose rules are m characters long
RuleTemplate(m, n) ==
    LET middle == IF m >= 2 THEN <<"[">> \o Rep("=", m - 2) \o <<"]">> ELSE Rep("[", m)
        all    == <<Rep("#", m), middle, Rep("-", m), Rep("<", m)>>
    IN  SubSeq(all, 1, n)

(***************************************************************************)
(* SpecFormat: single calls of _format_line and _build_separator.          *)
(***************************************************************************)
InitFormat ==
    /\ pc = "call"
    /\ ret = NoRet
    /\ lines = <<>>
    /\ idx = 0
    /\ heap = <<>>
    /\ framed = <<>>
    /\ NoCli
    /\ NoNet
    /\ \/ args \in [fn : {"_format_line"}, line : FormatTexts,
                    width : FormatWidths, use_dots : BOOLEAN]
       \/ args = [fn |-> "_format_line", line |-> KeyValueLine,
                  width |-> 40, use_dots |-> TRUE]
       \/ \E m \in 0..MaxMiddle, n \in 2..4, t \in TitleTexts :
             args = [fn |-> "_build_separator", title |-> t,
                     template_lines |-> RuleTemplate(m, n)]

CallFormatLine ==
    /\ pc = "call"
    /\ args.fn = "_format_line"
    /\ ret' = Returned(_format_line(args.line, args.width, args.use_dots))
    /\ pc' = "done"
    /\ UNCHANGED <<args, lines, idx>>
    /\ UNCHANGED <<heap, framed, cli_vars, net_vars>>

CallBuildSeparator ==
    /\ pc = "call"
    /\ args.fn = "_build_separator"
    /\ ret' = Returned(_build_separator(args.title, args.template_lines))
    /\ pc' = "done"
    /\ UNCHANGED <<args, lines, idx>>
    /\ UNCHANGED <<heap, framed, cli_vars, net_vars>>

NextFormat == CallFormatLine \/ CallBuildSeparator

SpecFormat == InitFormat /\ [][NextFormat]_vars

(***************************************************************************)
(* SpecFrame: single calls of _frame_section_lines and _extract_motifs.    *)
(***************************************************************************)
\* the lines a section is made of
FrameLineSamples ==
    { <<>>,
      <<" ">>,
      <<"a", "b">>,
      <<"k", ":", "v">>,
      <<"a", "b", " ", "c", "-", "d", " ", "e">>,
      <<"a", "b", "c", "d", "e", "f", "g">> }

RECURSIVE ListsOver(_, _)
\* every list of at most n elements of the set
ListsOver(set, n) ==
    IF n = 0 THEN {<<>>}
    ELSE LET shorter == ListsOver(set, n - 1)
         IN  shorter \cup {Append(l, e) : l \in shorter, e \in set}

\* the motif bodies: none, a line too short for a motif, one motif, and
\* two motifs around a line that is skipped
MotifBodies ==
    { <<>>,
      <<<<"<", "<", ">", ">">>>>,
      <<<<"<", "<", "<", ">", ">", ">">>>>,
      <<<<"(", "(", "(", "~", ")", ")", ")">>, <<"x">>, <<"[", "[", "[", "]", "]", "]">>>> }

\* a separator template whose rules are w characters long
FrameTemplate(w, body) == <<Rep("#", w), Rep("=", w), Rep("#", w)>> \o body

\* the separator templates without a bottom rule: 0 to 2 lines
ShortTemplates == {SubSeq(FrameTemplate(MaxTop, <<>>), 1, n) : n \in 0..2}

\* motif-body lines of 0, 3, 5, 6, 7 and 9 characters
MotifLineSamples ==
    { <<>>,
      <<"a", "b", "c">>,
      <<"a", "b", "c", "d", "e">>,
      <<"a", "b", "c", "d", "e", "f">>,
      <<"(", "(", "(", "~", ")", ")", ")">>,
      <<"<", "<", "<", "a", "b", "c", ">", ">", ">">> }

InitFrame ==
    /\ pc = "call"
    /\ ret = NoRet
    /\ lines = <<>>
    /\ idx = 0
    /\ heap = <<>>
    /\ framed = <<>>
    /\ NoCli
    /\ NoNet
    /\ \/ \E w \in 0..MaxTop, body \in MotifBodies :
             args \in [fn : {"_frame_section_lines"},
                       lines : ListsOver(FrameLineSamples, MaxLines),
                       template_lines : {FrameTemplate(w, body)},
                       wrap : BOOLEAN, pad : 0..MaxPad,
                       use_dots : BOOLEAN, add_pad_lines : BOOLEAN]
       \/ args \in [fn : {"_frame_section_lines"},
                    lines : ListsOver(FrameLineSamples, MaxLines),
                    template_lines : ShortTemplates,
                    wrap : BOOLEAN, pad : 0..MaxPad,
                    use_dots : BOOLEAN, add_pad_lines : BOOLEAN]
       \/ args \in [fn : {"_extract_motifs"},
                    lines : ListsOver(MotifLineSamples, MaxBody)]

CallFrameSectionLines ==
    /\ pc = "call"
    /\ args.fn = "_frame_section_lines"
    /\ ret' = _frame_section_lines(args.lines, args.template_lines, args.wrap,
                                   args.pad, args.use_dots, args.add_pad_lines)
    /\ pc' = "done"
    /\ UNCHANGED <<args, lines, idx>>
    /\ UNCHANGED <<heap, framed, cli_vars, net_vars>>

CallExtractMotifs ==
    /\ pc = "call"
    /\ args.fn = "_extract_motifs"
    /\ ret' = Returned(_extract_motifs(args.lines))
    /\ pc' = "done"
    /\ UNCHANGED <<args, lines, idx>>
    /\ UNCHANGED <<heap, framed, cli_vars, net_vars>>

NextFrame == CallFrameSectionLines \/ CallExtractMotifs

SpecFrame == InitFrame /\ [][NextFrame]_vars

(***************************************************************************)
(* Spec: one run of render_nfo_from_sections, a step per banner, loop and  *)
(* section.                                                                *)
(***************************************************************************)
SectionNames == {HeaderName, SummaryName, GeneralName}

\* the line lists of the sections: a key/value line, a text followed by
\* blank lines, and a line with a word wider than the frame
SectionLineLists ==
    { << <<"X", ":", " ", "Y">> >>,
      << <<"a", "b", " ", "c", "d">>, <<" ">>, <<>> >>,
      << <<"a", "b", "c", "d", "e", "f", "g", "h", "i", "j", "k", "l", "m",
           "n", "o", "p", "q", "r", "s", " ", "t", "u">> >> }

SectionChoices == [name : SectionNames, lines : SectionLineLists]

\* a separator template of width w with two motifs
FullTemplate(w) ==
    << Rep("#", w),
       <<"[">> \o Rep("=", w - 2) \o <<"]">>,
       Rep("#", w),
       <<"<", "<", "<">> \o Rep(" ", w - 6) \o <<">", ">", ">">>,
       <<"(", "(", "(">> \o Rep(" ", w - 6) \o <<")", ")", ")">> >>

\* the separator.txt of a run: missing, cut to 2, 3 or 4 lines (the fourth
\* too short for a motif), whole, and whole but too narrow for any content
SeparatorTemplates ==
    { <<>>,
      SubSeq(FullTemplate(24), 1, 2),
      SubSeq(FullTemplate(24), 1, 3),
      SubSeq(FullTemplate(24), 1, 3) \o << <<"<", ">">> >>,
      FullTemplate(24),
      FullTemplate(8) }

HeaderBanners == { <<>>, << <<"=", "H", "D", "R", "=">>, <<>> >> }
FooterBanners == { <<>>, << <<"=", "F", "T", "R", "=">> >> }

\* the end-to-end scenario of the spec: a Header whose line holds a newline
ScenarioHeaderLine ==
    <<"T", "i", "t", "l", "e", " ", "(", "2", "0", "2", "0", ")", NL,
      "S", "o", "u", "r", "c", "e", ":", " ", "B", "L", "U", "R", "A", "Y",
      " ", "|", " ",
      "R", "e", "s", "o", "l", "u", "t", "i", "o", "n", ":", " ",
      "1", "0", "8", "0", "p">>

ScenarioArgs ==
    [fn |-> "render_nfo_from_sections",
     sections |-> << [name |-> HeaderName, lines |-> <<ScenarioHeaderLine>>] >>,
     header_banner |-> <<>>,
     footer_banner |-> <<>>,
     separator_template |-> FullTemplate(60)]

Init ==
    /\ pc = "start"
    /\ ret = NoRet
    /\ lines = <<>>
    /\ idx = 0
    /\ heap = <<>>
    /\ framed = <<>>
    /\ NoCli
    /\ NoNet
    /\ \/ args \in [fn : {"render_nfo_from_sections"},
                    sections : ListsOver(SectionChoices, MaxSections),
                    header_banner : HeaderBanners,
                    footer_banner : FooterBanners,
                    separator_template : SeparatorTemplates]
       \/ args = ScenarioArgs

\* lines.extend(header_banner)
EmitHeaderBanner ==
    /\ pc = "start"
    /\ lines' = lines \o args.header_banner
    /\ idx' = 1
    /\ pc' = "header_loop"
    /\ UNCHANGED <<args, ret>>
    /\ UNCHANGED <<heap, framed, cli_vars, net_vars>>

\* one pass of the first loop: a section named Header is framed and emitted
FrameHeader ==
    /\ pc = "header_loop"
    /\ idx <= Len(args.sections)
    /\ LET section == args.sections[idx]
       IN  IF section.name # HeaderName
           THEN /\ idx' = idx + 1
                /\ UNCHANGED <<pc, lines, ret>>
           ELSE IF frame_header(section, args.separator_template).tag = "raised"
           THEN /\ pc' = "raised"
                /\ ret' = frame_header(section, args.separator_template)
                /\ UNCHANGED <<lines, idx>>
           ELSE /\ lines' = lines \o header_lines_of(section, args.separator_template)
                /\ idx' = idx + 1
                /\ UNCHANGED <<pc, ret>>
    /\ UNCHANGED args
    /\ UNCHANGED <<heap, framed, cli_vars, net_vars>>

EndHeaderLoop ==
    /\ pc = "header_loop"
    /\ idx > Len(args.sections)
    /\ pc' = "section_loop"
    /\ idx' = 1
    /\ UNCHANGED <<args, ret, lines>>
    /\ UNCHANGED <<heap, framed, cli_vars, net_vars>>

\* a second loop that emits the framed lines before the separator
EmitSection_content_first ==
    /\ pc = "section_loop"
    /\ idx <= Len(args.sections)
    /\ LET section == args.sections[idx]
       IN  IF section.name = HeaderName
           THEN /\ idx' = idx + 1
                /\ UNCHANGED <<pc, lines, ret>>
           ELSE IF frame_section(section, args.separator_template).tag = "raised"
           THEN /\ pc' = "raised"
                /\ ret' = frame_section(section, args.separator_template)
                /\ lines' = lines \o separator_lines_of(section, args.separator_template)
                /\ UNCHANGED idx
           ELSE /\ lines' = (lines \o frame_section(section, args.separator_template).val)
                               \o separator_lines_of(section, args.separator_template)
                /\ idx' = idx + 1
                /\ UNCHANGED <<pc, ret>>
    /\ UNCHANGED args
    /\ UNCHANGED <<heap, framed, cli_vars, net_vars>>

\* one pass of the second loop: separator (or bare name), then framed lines
EmitSection ==
    /\ pc = "section_loop"
    /\ idx <= Len(args.sections)
    /\ LET section == args.sections[idx]
       IN  IF section.name = HeaderName
           THEN /\ idx' = idx + 1
                /\ UNCHANGED <<pc, lines, ret>>
           ELSE IF frame_section(section, args.separator_template).tag = "raised"
           THEN /\ pc' = "raised"
                /\ ret' = frame_section(section, args.separator_template)
                /\ lines' = lines \o separator_lines_of(section, args.separator_template)
                /\ UNCHANGED idx
           ELSE /\ lines' = (lines \o separator_lines_of(section, args.separator_template))
                               \o frame_section(section, args.separator_template).val
                /\ idx' = idx + 1
                /\ UNCHANGED <<pc, ret>>
    /\ UNCHANGED args
    /\ UNCHANGED <<heap, framed, cli_vars, net_vars>>

EndSectionLoop ==
    /\ pc = "section_loop"
    /\ idx > Len(args.sections)
    /\ pc' = "footer"
    /\ UNCHANGED <<args, ret, lines, idx>>
    /\ UNCHANGED <<heap, framed, cli_vars, net_vars>>

\* the blank line and the footer banner
EmitFooter ==
    /\ pc = "footer"
    /\ lines' = footer_lines_of(lines, args.footer_banner)
    /\ pc' = "join"
    /\ UNCHANGED <<args, ret, idx>>
    /\ UNCHANGED <<heap, framed, cli_vars, net_vars>>

\* return "\n".join(lines).rstrip() + "\n"
ReturnDocument ==
    /\ pc = "join"
    /\ ret' = Returned(document_of(lines))
    /\ pc' = "done"
    /\ UNCHANGED <<args, lines, idx>>
    /\ UNCHANGED <<heap, framed, cli_vars, net_vars>>

Next ==
    \/ EmitHeaderBanner
    \/ FrameHeader
    \/ EndHeaderLoop
    \/ EmitSection
    \/ EndSectionLoop
    \/ EmitFooter
    \/ ReturnDocument

Spec == Init /\ [][Next]_vars

(***************************************************************************)
(* Properties of render_nfo_from_sections (Spec).                          *)
(***************************************************************************)
RenderDone == pc = "done" /\ ret.tag = "ok"

\* C3 as claimed: render_nfo_from_sections never raises, whatever the
\* templates (a top rule so short that inner_width <= 0 included) and the
\* sections are.
C3_never_raises == pc # "raised"

\* C7 as claimed: the Header scenario of the spec is rendered as exactly 2
\* physical lines, each 60 wide, line 0 bordered by motif 0 and line 1 by
\* motif 1, with one pad space inside each border.
C7_header_scenario_two_lines ==
    (RenderDone /\ args = ScenarioArgs) =>
        /\ Len(lines) = 2
        /\ \A i \in 1..Len(lines) : Len(lines[i]) = 60
        /\ SubSeq(lines[1], 1, 4) = <<"<", "<", "<", " ">>
        /\ SubSeq(lines[1], 57, 60) = <<" ", ">", ">", ">">>
        /\ SubSeq(lines[2], 1, 4) = <<"(", "(", "(", " ">>
        /\ SubSeq(lines[2], 57, 60) = <<" ", ")", ")", ")">>

\* s holds the lines of block, one after the other, starting at a line start
ContainsLines(s, block) ==
    LET whole == join_lines(block) \o <<NL>>
    IN  \E p \in 0..(Len(s) - Len(whole)) :
            /\ SubSeq(s, p + 1, p + Len(whole)) = whole
            /\ p = 0 \/ s[p] = NL

NoSeparator == Len(args.separator_template) < 3

\* C8 as claimed: without a separator template of 3 lines the returned
\* document holds, for every section but Header, the bare name as one line
\* immediately followed by the lines of the section, unmodified.
C8_document_holds_bare_sections ==
    (RenderDone /\ NoSeparator) =>
        \A k \in 1..Len(args.sections) :
            args.sections[k].name # HeaderName =>
                /\ _build_separator(args.sections[k].name, args.separator_template) = <<>>
                /\ ContainsLines(ret.val,
                                 <<args.sections[k].name>> \o args.sections[k].lines)

\* C8 amended: the emitted lines hold, for every section but Header, the bare
\* name immediately followed by the lines of the section, unmodified; the
\* returned document is these lines joined, less the whitespace at the very
\* end of the document.
C8_degradation ==
    (RenderDone /\ NoSeparator) =>
        /\ \A k \in 1..Len(args.sections) :
              args.sections[k].name # HeaderName =>
                  /\ _build_separator(args.sections[k].name, args.separator_template) = <<>>
                  /\ ContainsLines(join_lines(lines) \o <<NL>>,
                                   <<args.sections[k].name>> \o args.sections[k].lines)
        /\ rstrip(ret.val) = rstrip(join_lines(lines))

\* [("General", ["X: Y"])] without any template gives General, then X: Y
C8_witness ==
    /\ RenderDone
    /\ args.separator_template = <<>>
    /\ args.header_banner = <<>>
    /\ args.footer_banner = <<>>
    /\ args.sections = << [name |-> GeneralName, lines |-> << <<"X", ":", " ", "Y">> >>] >>
    /\ ret.val = GeneralName \o <<NL, "X", ":", " ", "Y", NL>>

RECURSIVE HeaderPart(_, _)
\* the lines of the sections named Header, in input order
HeaderPart(sections, separator_template) ==
    IF sections = <<>> THEN <<>>
    ELSE (IF Head(sections).name = HeaderName
          THEN header_lines_of(Head(sections), separator_template) ELSE <<>>)
         \o HeaderPart(Tail(sections), separator_template)

RECURSIVE BodyPart(_, _)
\* separator (or bare name) and framed lines of the other sections, in input
\* order
BodyPart(sections, separator_template) ==
    IF sections = <<>> THEN <<>>
    ELSE (IF Head(sections).name # HeaderName
          THEN separator_lines_of(Head(sections), separator_template)
               \o frame_section(Head(sections), separator_template).val
          ELSE <<>>)
         \o BodyPart(Tail(sections), separator_template)

\* C9: the returned document is the header banner, then the Header sections
\* without separator, then every other section in input order, separator
\* first and framed content second, then (after at most one blank line) the
\* footer banner.
C9_document_order ==
    RenderDone =>
        \E blank \in {<<>>, << <<>> >>} :
            ret.val = document_of(
                (((args.header_banner
                   \o HeaderPart(args.sections, args.separator_template))
                   \o BodyPart(args.sections, args.separator_template))
                   \o blank) \o args.footer_banner)

\* a Header that stands second in the input is emitted right after the
\* header banner, before the separator of the first section
C9_witness ==
    /\ RenderDone
    /\ Len(args.sections) = 2
    /\ args.sections[1].name = GeneralName
    /\ args.sections[2].name = HeaderName
    /\ args.separator_template = FullTemplate(24)
    /\ args.header_banner # <<>>
    /\ args.footer_banner # <<>>
    /\ lines[3] = frame_header(args.sections[2], args.separator_template).val[1]
    /\ lines[4] = Rep("#", 24)
    /\ lines[Len(lines)] = args.footer_banner[1]

\* C10: the footer step, with a footer banner, appends one blank line exactly
\* when lines were emitted and the last one is not blank, and then the
\* footer banner verbatim.
C10_footer_spacing ==
    [][(pc = "footer" /\ args.footer_banner # <<>>) =>
          IF lines # <<>> /\ lines[Len(lines)] # <<>>
          THEN lines' = (lines \o << <<>> >>) \o args.footer_banner
          ELSE lines' = lines \o args.footer_banner]_vars

\* a blank line was inserted between a framed line and the footer banner
C10_witness ==
    /\ pc = "join"
    /\ args.footer_banner # <<>>
    /\ Len(lines) >= 3
    /\ lines[Len(lines)] = args.footer_banner[1]
    /\ lines[Len(lines) - 1] = <<>>
    /\ lines[Len(lines) - 2] # <<>>

\* C11: the string that render_nfo_from_sections returns ends with exactly
\* one line feed, and the character before that line feed, when there is
\* one, is not whitespace; with no sections and no templates the string is
\* the line feed alone.
C11_trailing_newline ==
    RenderDone =>
        LET doc == ret.val
            n   == Len(doc)
        IN  /\ n >= 1
            /\ doc[n] = NL
            /\ n >= 2 => doc[n - 1] \notin Whitespace
            /\ (args.sections = <<>> /\ args.header_banner = <<>>
                    /\ args.footer_banner = <<>>) => doc = <<NL>>

\* a finished render whose assembled lines ended with a blank line (the
\* pad line that closes a framed section), the document holding more than
\* the line feed
C11_witness ==
    /\ RenderDone
    /\ lines # <<>>
    /\ IsBlank(lines[Len(lines)])
    /\ Len(ret.val) >= 2
    /\ ret.val[Len(ret.val)] = NL
    /\ ret.val[Len(ret.val) - 1] \notin Whitespace

(***************************************************************************)
(* Properties of _frame_section_lines (SpecFrame).                         *)
(***************************************************************************)
FrameDone == pc = "done" /\ args.fn = "_frame_section_lines"

\* the template has at least 4 lines and a motif-body line of length >= 6
FramingActive ==
    /\ Len(args.template_lines) >= 4
    /\ \E i \in 4..Len(args.template_lines) : Len(args.template_lines[i]) >= 6

\* the call returned framed lines
Framed == FrameDone /\ FramingActive /\ ret.tag = "ok"

TemplateWidth == Len(args.template_lines[1])
ArgInnerWidth == TemplateWidth - 6 - (2 * args.pad)
ArgChunks ==
    all_chunks(render_lines_of(args.lines, args.add_pad_lines), args.wrap, ArgInnerWidth)

\* the i-th physical line is a wrapped chunk that is one token wider than
\* inner_width
OversizedChunk(i) ==
    /\ args.wrap
    /\ ~Contains(ArgChunks[i], " ")
    /\ Len(ArgChunks[i]) > ArgInnerWidth

\* C1 as claimed: for every top-line width W and every pad >= 0 each string
\* returned has length exactly W, but for a wrapped chunk that is a single
\* token longer than inner_width.
C1_width_any_template ==
    Framed =>
        \A i \in 1..Len(ret.val) :
            Len(ret.val[i]) = TemplateWidth \/ OversizedChunk(i)

\* C1 amended: for every top-line width W >= 6 + 2 * pad each string returned
\* has length exactly W, oversized tokens included.
C1_width_invariant ==
    (Framed /\ TemplateWidth >= 6 + (2 * args.pad)) =>
        \A i \in 1..Len(ret.val) : Len(ret.val[i]) = TemplateWidth

\* a wrapped section that holds a token of 7 characters, framed to an inner
\* width of 3: every line is 11 wide
C1_witness ==
    /\ Framed
    /\ args.wrap
    /\ args.pad = 1
    /\ TemplateWidth = 11
    /\ \E i \in 1..Len(args.lines) : args.lines[i] = <<"a", "b", "c", "d", "e", "f", "g">>
    /\ \E i \in 1..Len(ret.val) : OversizedChunk(i)
    /\ \A i \in 1..Len(ret.val) : Len(ret.val[i]) = 11

\* a logical line that is one unbroken token longer than inner_width
OversizedToken(line) ==
    /\ line # <<>>
    /\ \A j \in 1..Len(line) : line[j] \notin Whitespace
    /\ Len(line) > ArgInnerWidth

\* whole occurs in s
HasSubstring(s, whole) ==
    \E p \in 0..(Len(s) - Len(whole)) : SubSeq(s, p + 1, p + Len(whole)) = whole

\* the motifs of the template of the call
ArgMotifs ==
    _extract_motifs(SubSeq(args.template_lines, 4, Len(args.template_lines)))

\* the content of the i-th physical line as the Line Formatter returns it
FormattedChunk(i) ==
    _format_line(ArgChunks[i], ArgInnerWidth,
                 args.use_dots /\ Contains(ArgChunks[i], ":"))

\* C19: with n >= 1 motifs, the i-th string that _frame_section_lines
\* returns (i counted from 0 over all the physical lines of the call, pad
\* lines and wrapped chunks included) is motifs[i mod n].left + pad spaces
\* + formatted content + pad spaces + motifs[i mod n].right.
C19_motif_cycling ==
    Framed =>
        LET n == Len(ArgMotifs)
        IN  /\ n >= 1
            /\ Len(ret.val) = Len(ArgChunks)
            /\ \A i \in 0..(Len(ret.val) - 1) :
                  LET motif == ArgMotifs[(i % n) + 1]
                  IN  ret.val[i + 1] =
                          motif.left \o Spaces(args.pad) \o FormattedChunk(i + 1)
                              \o Spaces(args.pad) \o motif.right

\* two motifs and four physical lines or more, a wrapped line and the two
\* pad lines among them: the borders alternate
C19_witness ==
    /\ Framed
    /\ Len(ArgMotifs) = 2
    /\ args.wrap /\ args.add_pad_lines
    /\ args.lines = <<<<"a", "b", " ", "c", "-", "d", " ", "e">>>>
    /\ Len(ret.val) >= 4
    /\ \A i \in 1..Len(ret.val) :
          SliceTo(ret.val[i], 3) = IF i % 2 = 1 THEN <<"(", "(", "(">>
                                   ELSE <<"[", "[", "[">>
    /\ \A i \in 1..Len(ret.val) :
          SliceLast(ret.val[i], 3) = IF i % 2 = 1 THEN <<")", ")", ")">>
                                     ELSE <<"]", "]", "]">>

C20_framer_degradation ==
    (FrameDone /\ ~FramingActive) =>
        /\ ret.tag = "ok"
        /\ ret.val = args.lines

\* a template whose only motif-body line has 4 characters, a section with
\* a blank line, wrap and pad lines asked for: the two lines come back
C20_witness ==
    /\ FrameDone
    /\ Len(args.template_lines) = 4
    /\ Len(args.template_lines[4]) = 4
    /\ args.wrap /\ args.add_pad_lines /\ args.use_dots
    /\ args.lines = <<<<" ">>, <<"k", ":", "v">>>>
    /\ ret.val = <<<<" ">>, <<"k", ":", "v">>>>

\* the positions of the input lines that hold a character other than
\* whitespace
NonBlankLines(section_lines) ==
    {k \in 1..Len(section_lines) :
        \E j \in 1..Len(section_lines[k]) : section_lines[k][j] \notin {" ", NL}}

\* the position of the k-th such line
KthNonBlank(section_lines, k) ==
    CHOOSE i \in NonBlankLines(section_lines) :
        Cardinality({j \in NonBlankLines(section_lines) : j <= i}) = k

\* the number of pad lines of the call
PadCount == IF args.add_pad_lines THEN 2 ELSE 0

RECURSIVE WrappedCount(_, _)
\* the number of physical lines the non-blank lines wrap to
WrappedCount(section_lines, width) ==
    IF section_lines = <<>> THEN 0
    ELSE (IF 1 \in NonBlankLines(<<Head(section_lines)>>)
          THEN Len(textwrap_wrap(Head(section_lines), width)) ELSE 0)
         + WrappedCount(Tail(section_lines), width)

\* C21: when framing is active no empty or whitespace-only input line
\* yields an output line: with wrap off the output has as many lines as
\* there are non-blank input lines, plus 2 with add_pad_lines, and the k-th
\* content line frames the k-th non-blank input line; with wrap on the
\* output has the physical lines of the non-blank lines, plus the pad lines.
C21_blank_lines_dropped ==
    Framed =>
        LET nb  == NonBlankLines(args.lines)
            off == IF args.add_pad_lines THEN 1 ELSE 0
            n   == Len(ArgMotifs)
        IN  /\ ~args.wrap =>
                  /\ Len(ret.val) = Cardinality(nb) + PadCount
                  /\ \A k \in 1..Cardinality(nb) :
                        LET line  == args.lines[KthNonBlank(args.lines, k)]
                            motif == ArgMotifs[((k + off - 1) % n) + 1]
                        IN  ret.val[k + off] =
                                motif.left \o Spaces(args.pad)
                                \o _format_line(line, ArgInnerWidth,
                                                args.use_dots /\ Contains(line, ":"))
                                \o Spaces(args.pad) \o motif.right
            /\ args.wrap =>
                  Len(ret.val) = WrappedCount(args.lines, ArgInnerWidth) + PadCount

\* a whitespace-only line before a key/value line, wrap off, pad lines on:
\* three lines come back and the second one holds the key
C21_witness ==
    /\ Framed
    /\ ~args.wrap /\ args.add_pad_lines /\ ~args.use_dots
    /\ args.lines = <<<<" ">>, <<"k", ":", "v">>>>
    /\ TemplateWidth = 11
    /\ Len(ret.val) = 3
    /\ HasSubstring(ret.val[2], <<"k", ":", "v">>)
    /\ ~HasSubstring(ret.val[1], <<"k", ":", "v">>)

\* a framed line whose interior holds spaces only
BlankFramed(line, motif) ==
    /\ Len(line) >= 6
    /\ line = (motif.left \o Spaces(Len(line) - 6)) \o motif.right

\* the number of physical lines the content of the call yields
ContentCount ==
    IF args.wrap THEN WrappedCount(args.lines, ArgInnerWidth)
    ELSE Cardinality(NonBlankLines(args.lines))

\* C22, for the calls that return: with add_pad_lines the first and the
\* last framed line are the border fragments around spaces only, and they
\* are added to the content lines; a section without a non-blank line gives
\* exactly these two lines, wrap on or off; without add_pad_lines the
\* output has the content lines only.
C22_padding_lines ==
    Framed =>
        LET n == Len(ArgMotifs)
        IN  IF args.add_pad_lines
            THEN /\ Len(ret.val) = ContentCount + 2
                 /\ BlankFramed(ret.val[1], ArgMotifs[1])
                 /\ BlankFramed(ret.val[Len(ret.val)],
                                ArgMotifs[((Len(ret.val) - 1) % n) + 1])
                 /\ NonBlankLines(args.lines) = {} => Len(ret.val) = 2
            ELSE /\ Len(ret.val) = ContentCount
                 /\ NonBlankLines(args.lines) = {} => ret.val = <<>>

\* C22 as claimed: whenever framing is active the call returns, and with
\* add_pad_lines its first and last line are the border fragments around
\* spaces only; a section without a non-blank line gives exactly these two
\* lines, wrap on or off.
C22_padding_lines_any_width ==
    (FrameDone /\ FramingActive) =>
        /\ ret.tag = "ok"
        /\ C22_padding_lines

\* a section of a whitespace-only and an empty line, wrapped, between two
\* motifs: the two pad lines and nothing else
C22_witness ==
    /\ Framed
    /\ args.add_pad_lines /\ args.wrap
    /\ args.lines = <<<<" ">>, <<>>>>
    /\ Len(ArgMotifs) = 2
    /\ TemplateWidth = 11
    /\ args.pad = 1
    /\ ret.val = << <<"(", "(", "(">> \o Spaces(5) \o <<")", ")", ")">>,
                    <<"[", "[", "[">> \o Spaces(5) \o <<"]", "]", "]">> >>

RECURSIVE WordsOf(_)
\* the words of a text: its maximal runs of characters other than whitespace
WordsOf(text) ==
    IF text = <<>> THEN <<>>
    ELSE IF text[1] \in {" ", NL} THEN WordsOf(Tail(text))
    ELSE LET stop == IF \A i \in 1..Len(text) : text[i] \notin {" ", NL} THEN Len(text)
                     ELSE (CHOOSE i \in 1..Len(text) :
                              /\ text[i] \in {" ", NL}
                              /\ \A j \in 1..(i - 1) : text[j] \notin {" ", NL}) - 1
         IN  <<SubSeq(text, 1, stop)>> \o WordsOf(SubSeq(text, stop + 1, Len(text)))

RECURSIVE JoinWords(_)
\* words joined by single spaces
JoinWords(words) ==
    IF words = <<>> THEN <<>>
    ELSE IF Len(words) = 1 THEN words[1]
    ELSE (words[1] \o <<" ">>) \o JoinWords(Tail(words))

RECURSIVE GreedyPack(_, _)
\* the greedy packing of words into chunks of at most width characters: a
\* chunk takes the next word, then every following word that still fits
\* behind a space; a word is never cut
GreedyPack(words, width) ==
    IF words = <<>> THEN <<>>
    ELSE LET fits(k) == Len(JoinWords(SubSeq(words, 1, k))) <= width
             taken   == CHOOSE k \in 1..Len(words) :
                            /\ \A j \in 2..k : fits(j)
                            /\ k < Len(words) => ~fits(k + 1)
         IN  <<SubSeq(words, 1, taken)>>
             \o GreedyPack(SubSeq(words, taken + 1, Len(words)), width)

RECURSIVE ExpectedChunks(_, _)
\* the chunks of the non-blank lines of a section, each a list of words
ExpectedChunks(section_lines, width) ==
    IF section_lines = <<>> THEN <<>>
    ELSE GreedyPack(WordsOf(Head(section_lines)), width)
         \o ExpectedChunks(Tail(section_lines), width)

\* no chunk of the call gets a dot leader
NoDotLeader == ~args.use_dots \/ \A k \in 1..Len(args.lines) : ~Contains(args.lines[k], ":")

\* the content of the i-th framed line between its borders and pad spaces,
\* without the spaces that center it
FramedContent(i) ==
    strip(SubSeq(ret.val[i], 4 + args.pad, 3 + args.pad + ArgInnerWidth))

\* C24: with wrap set and inner_width >= 1 the physical lines of the call
\* are the greedy packing of the words of each non-blank logical line: the
\* words come in their order, none is split (neither at a hyphen), a chunk
\* of several words is at most inner_width long, and a chunk is longer than
\* inner_width only when it is one word (the line formatter then shows its
\* first inner_width characters, and the rest of the word shows nowhere).
C24_word_wrap ==
    (Framed /\ args.wrap /\ ArgInnerWidth >= 1 /\ NoDotLeader) =>
        LET off      == IF args.add_pad_lines THEN 1 ELSE 0
            expected == ExpectedChunks(args.lines, ArgInnerWidth)
        IN  /\ Len(ret.val) = Len(expected) + (2 * off)
            /\ \A i \in 1..Len(expected) :
                  LET chunk == JoinWords(expected[i])
                  IN  /\ Len(expected[i]) > 1 => Len(chunk) <= ArgInnerWidth
                      /\ Len(chunk) > ArgInnerWidth => Len(expected[i]) = 1
                      /\ FramedContent(i + off) = SliceTo(chunk, ArgInnerWidth)

\* the line "ab c-d e" wrapped to 4 columns: ab, c-d and e, the hyphenated
\* word whole
C24_witness ==
    /\ Framed
    /\ args.wrap /\ ~args.add_pad_lines /\ ~args.use_dots
    /\ ArgInnerWidth = 4
    /\ args.lines = <<<<"a", "b", " ", "c", "-", "d", " ", "e">>>>
    /\ Len(ret.val) = 3
    /\ FramedContent(1) = <<"a", "b">>
    /\ FramedContent(2) = <<"c", "-", "d">>
    /\ FramedContent(3) = <<"e">>

(***************************************************************************)
(* The flags render_nfo_from_sections hands to the framer (Spec).           *)
(***************************************************************************)
\* the flags of a section: Summary is wrapped without dot leaders, Header
\* is wrapped without dot leaders and pad lines, every other section is
\* not wrapped and has dot leaders and pad lines
ClaimedFlags(name) ==
    IF name = SummaryName
    THEN [wrap |-> TRUE, use_dots |-> FALSE, add_pad_lines |-> TRUE]
    ELSE IF name = HeaderName
    THEN [wrap |-> TRUE, use_dots |-> FALSE, add_pad_lines |-> FALSE]
    ELSE [wrap |-> FALSE, use_dots |-> TRUE, add_pad_lines |-> TRUE]

\* the framing of a section under these flags and pad = 1
FramedAsClaimed(section, separator_template) ==
    _frame_section_lines(section.lines, separator_template,
                         ClaimedFlags(section.name).wrap, 1,
                         ClaimedFlags(section.name).use_dots,
                         ClaimedFlags(section.name).add_pad_lines)

\* the separator template of the run frames: it holds a motif
RunFramingActive ==
    /\ Len(args.separator_template) >= 4
    /\ \E i \in 4..Len(args.separator_template) : Len(args.separator_template[i]) >= 6

\* C23: each pass of the two loops emits the section framed with pad = 1
\* and the flags of its name (Summary: wrap, no dot leaders; Header: wrap,
\* no dot leaders, no pad lines; any other: no wrap, dot leaders, pad
\* lines), and raises exactly when that framing raises; hence, when the
\* template frames, no line of Header or Summary gets a dot leader and a
\* section of another name gets one physical line per non-blank line
\* between its two pad lines.
C23_section_flags ==
    [][(pc \in {"header_loop", "section_loop"} /\ idx <= Len(args.sections)) =>
          LET section  == args.sections[idx]
              claimed  == FramedAsClaimed(section, args.separator_template)
              in_turn  == (pc = "header_loop") = (section.name = HeaderName)
              added    == SubSeq(lines', Len(lines) + 1, Len(lines'))
              lead     == IF pc = "header_loop" THEN 0
                          ELSE IF Len(args.separator_template) >= 3 THEN 3 ELSE 1
              content  == SubSeq(added, lead + 1, Len(added))
          IN  IF ~in_turn THEN lines' = lines /\ pc' = pc
              ELSE /\ (pc' = "raised") = (claimed.tag = "raised")
                   /\ pc' # "raised" =>
                         /\ Len(added) >= lead
                         /\ content = IF pc = "header_loop" /\ claimed.val = <<>>
                                      THEN section.lines ELSE claimed.val
                         /\ (RunFramingActive /\ section.name \in {HeaderName, SummaryName}) =>
                               \A i \in 1..Len(content) : ~Contains(content[i], ".")
                         /\ (RunFramingActive /\ section.name \notin {HeaderName, SummaryName}) =>
                               Len(content) = Cardinality(NonBlankLines(section.lines)) + 2]_vars

\* a Summary and a General section that hold the same line X: Y, framed by
\* a template 24 wide: the line is centered in Summary and dot-led in
\* General
C23_witness ==
    /\ RenderDone
    /\ args.separator_template = FullTemplate(24)
    /\ Len(args.sections) = 2
    /\ args.sections[1] = [name |-> SummaryName, lines |-> << <<"X", ":", " ", "Y">> >>]
    /\ args.sections[2] = [name |-> GeneralName, lines |-> << <<"X", ":", " ", "Y">> >>]
    /\ \E i \in 1..Len(lines) : HasSubstring(lines[i], <<" ", "X", ":", " ", "Y", " ">>)
    /\ \E i \in 1..Len(lines) : HasSubstring(lines[i], <<"X", ".", ".", ".", ".", "Y">>)

(***************************************************************************)
(* Properties of _format_line and of the centering (SpecFormat).           *)
(***************************************************************************)
FormatDone == pc = "done" /\ args.fn = "_format_line"
SeparatorDone == pc = "done" /\ args.fn = "_build_separator"

\* the trimmed key and value of a line that holds a colon
KeyOf(line) == strip(SubSeq(line, 1, IndexOf(line, ":") - 1))
ValueOf(line) == strip(SubSeq(line, IndexOf(line, ":") + 1, Len(line)))

\* C2 as claimed: _format_line returns a string of length exactly inner_width
\* for every text, every width (below 10, zero and negative included) and
\* both values of use_dots.
C2_length_is_width_any_width ==
    FormatDone => Len(ret.val) = args.width

\* C2 amended: for every text, every width >= 0 and both values of use_dots
\* _format_line returns a string of length exactly width; for a negative
\* width the result cannot have that length.
C2_length_is_width ==
    FormatDone =>
        /\ args.width >= 0 => Len(ret.val) = args.width
        /\ args.width < 0 => Len(ret.val) # args.width

\* a longer text was truncated, in dot-leader mode, to a width below 10
C2_witness ==
    /\ FormatDone
    /\ args.use_dots
    /\ args.width = 3
    /\ args.line = <<"a", ":", "a", "a">>
    /\ Len(ret.val) = 3

\* the case of C5: dots wanted, width >= 10, key and value non-empty,
\* free of dots and short enough to fit
DotLeaderFits ==
    /\ FormatDone
    /\ args.use_dots
    /\ args.width >= 10
    /\ Contains(args.line, ":")
    /\ KeyOf(args.line) # <<>>
    /\ ValueOf(args.line) # <<>>
    /\ ~Contains(KeyOf(args.line), ".")
    /\ ~Contains(ValueOf(args.line), ".")
    /\ Len(KeyOf(args.line)) + Len(ValueOf(args.line)) <= args.width - 10

\* C5: in that case the result has length W and holds the key, then one run
\* of exactly max(2, W - 10 - len(key) - len(value)) dots, then the value.
C5_dot_leader_layout ==
    DotLeaderFits =>
        LET key   == KeyOf(args.line)
            value == ValueOf(args.line)
            run   == Max(2, args.width - 10 - Len(key) - Len(value))
            whole == key \o Rep(".", run) \o value
        IN  /\ Len(ret.val) = args.width
            /\ \E p \in 0..(args.width - Len(whole)) :
                   SubSeq(ret.val, p + 1, p + Len(whole)) = whole
            /\ Cardinality({i \in 1..Len(ret.val) : ret.val[i] = "."}) = run

\* "Key: Value" at width 40 gives a run of 22 dots
C5_witness ==
    /\ DotLeaderFits
    /\ args.line = KeyValueLine
    /\ args.width = 40
    /\ SubSeq(ret.val, 6, 35) = <<"K", "e", "y">> \o Rep(".", 22) \o <<"V", "a", "l", "u", "e">>

\* the engine centers a text in a field at least as wide as the text
CenterCase ==
    \/ /\ FormatDone
       /\ ~(args.use_dots /\ Contains(args.line, ":"))
       /\ args.width >= Len(args.line)
    \/ /\ FormatDone
       /\ args.use_dots /\ Contains(args.line, ":")
       /\ ValueOf(args.line) = <<>>
       /\ args.width >= Len(KeyOf(args.line))
    \/ /\ SeparatorDone
       /\ Len(args.template_lines) >= 3
       /\ Len(args.template_lines[2]) >= 2
       /\ Len(args.template_lines[2]) - 2 >= Len(args.title)

CenteredText ==
    IF SeparatorDone THEN args.title
    ELSE IF args.use_dots /\ Contains(args.line, ":") THEN KeyOf(args.line)
    ELSE args.line

CenteredField ==
    IF SeparatorDone THEN Len(args.template_lines[2]) - 2 ELSE args.width

CenteredResult ==
    IF SeparatorDone THEN SubSeq(ret.val[2], 2, Len(ret.val[2]) - 1) ELSE ret.val

\* the result is the text between L spaces and R spaces
PaddedBy(L, R) == CenteredResult = Spaces(L) \o CenteredText \o Spaces(R)

FirstColon(line) ==
    CHOOSE at \in 1..Len(line) : line[at] = ":" /\ \A j \in 1..(at - 1) : line[j] # ":"

\* the trimmed text before the first colon, and the trimmed text after it
\* (later colons included)
TrimmedKey(line) == strip(SubSeq(line, 1, FirstColon(line) - 1))
TrimmedValue(line) == strip(SubSeq(line, FirstColon(line) + 1, Len(line)))

\* text[:n]: the first n characters, or all but the last -n when n < 0
CutTo(text, n) ==
    IF n >= 0 THEN SubSeq(text, 1, Min(n, Len(text)))
    ELSE SubSeq(text, 1, Max(Len(text) + n, 0))

\* the result is the text cut to the width, between paddings that fill the
\* width and differ by at most one space
ResultCenters(text) ==
    LET cut  == CutTo(text, args.width)
        room == Max(args.width - Len(cut), 0)
    IN  \E L \in 0..room :
            /\ ret.val = (Spaces(L) \o cut) \o Spaces(room - L)
            /\ L - (room - L) \in {-1, 0, 1}

\* C25: _format_line makes a dot leader only when use_dots is set and the
\* line holds a colon; the line is cut at its first colon and both sides
\* are trimmed; with an empty value the result is the key alone, without
\* colon, cut to the width and centered; with a value and a width that
\* holds both, it is 5 spaces, the key, the dots, the value (its later
\* colons kept) and 5 spaces; a line without colon, or any line when
\* use_dots is not set, is cut to the width and centered.
C25_dot_leader_entry ==
    FormatDone =>
        IF args.use_dots /\ \E i \in 1..Len(args.line) : args.line[i] = ":"
        THEN LET key   == TrimmedKey(args.line)
                 value == TrimmedValue(args.line)
                 room  == args.width - 10 - Len(key) - Len(value)
             IN  IF value = <<>>
                 THEN /\ ResultCenters(key)
                      /\ \A i \in 1..Len(ret.val) : ret.val[i] # ":"
                 ELSE room >= 2 =>
                         ret.val = (((Spaces(5) \o key) \o Rep(".", room)) \o value)
                                       \o Spaces(5)
        ELSE ResultCenters(args.line)

\* the line a::a at width 15: the key is a, the value :a keeps the second
\* colon
C25_witness ==
    /\ FormatDone
    /\ args.use_dots
    /\ args.width = 15
    /\ args.line = <<"a", ":", ":", "a">>
    /\ ret.val = (Spaces(5) \o <<"a", ".", ".", ":", "a">>) \o Spaces(5)

\* the case of C26: a dot leader is made, the width is at least 10 and the
\* value is not empty
DotLeaderCase ==
    /\ FormatDone
    /\ args.use_dots
    /\ args.width >= 10
    /\ \E i \in 1..Len(args.line) : args.line[i] = ":"
    /\ TrimmedValue(args.line) # <<>>

\* C26: in that case the result has the width W and is 5 spaces, the key
\* cut to W - 10 characters, a run of at least 2 dots, a head of the value
\* and at most 5 spaces; the sixth character is no space, and when key and
\* value do not both fit what is cut is the tail of the value and of the
\* right margin, never the left margin, the key or the first two dots.
C26_overflow_keeps_key ==
    DotLeaderCase =>
        LET key   == CutTo(TrimmedKey(args.line), args.width - 10)
            value == TrimmedValue(args.line)
        IN  /\ Len(ret.val) = args.width
            /\ SubSeq(ret.val, 1, 5 + Len(key) + 2) = (Spaces(5) \o key) \o <<".", ".">>
            /\ ret.val[6] # " "
            /\ \E n \in 2..args.width, v \in 0..Len(value), m \in 0..5 :
                  /\ ret.val = (((Spaces(5) \o key) \o Rep(".", n))
                                   \o SubSeq(value, 1, v)) \o Spaces(m)
                  /\ (v < Len(value) \/ m < 5) =>
                         /\ n = 2
                         /\ Len(key) + Len(value) + 2 > args.width - 10

\* aa:a at width 11: the key is cut to a, the two dots and the value
\* follow, and 2 of the 5 spaces of the right margin are left
C26_witness ==
    /\ DotLeaderCase
    /\ args.width = 11
    /\ args.line = <<"a", "a", ":", "a">>
    /\ ret.val = ((Spaces(5) \o <<"a", ".", ".", "a">>) \o Spaces(2))

\* the first n characters of a text, nothing when n <= 0
TruncatedTo(t, n) == SubSeq(t, 1, Min(Len(t), Max(n, 0)))

\* the characters of a line between its first and its last one
Interior(line) == SubSeq(line, 2, Len(line) - 1)

\* C16: for every title and every separator template of at least 3 lines,
\* _build_separator returns exactly 3 lines: the top line unchanged, a
\* middle line as long as the template's middle line, with the same first
\* and last characters, whose interior is the title truncated to
\* inner_width = len(middle) - 2 characters (to nothing when inner_width is
\* not positive) between paddings that differ by at most one space, and the
\* bottom line unchanged.
C16_separator_shape ==
    (SeparatorDone /\ Len(args.template_lines) >= 3) =>
        LET middle      == args.template_lines[2]
            inner_width == Len(middle) - 2
            field       == Max(inner_width, 0)
            safe_title  == TruncatedTo(args.title, inner_width)
            out         == ret.val
        IN  /\ Len(out) = 3
            /\ out[1] = args.template_lines[1]
            /\ out[3] = args.template_lines[3]
            /\ Len(out[2]) = Len(middle)
            /\ Len(middle) >= 1 =>
                  /\ out[2][1] = middle[1]
                  /\ out[2][Len(middle)] = middle[Len(middle)]
            /\ \E L \in 0..field :
                  LET R == field - Len(safe_title) - L
                  IN  /\ R >= 0
                      /\ Interior(out[2]) = Spaces(L) \o safe_title \o Spaces(R)
                      /\ L - R \in {-1, 0, 1}

\* a title of four characters in a middle line of five: the interior is
\* the first three characters of the title, between the two brackets
C16_witness ==
    /\ SeparatorDone
    /\ Len(args.template_lines) = 4
    /\ args.title = <<"a", "b", "b", "a">>
    /\ Len(args.template_lines[2]) = 5
    /\ ret.val[1] = Rep("#", 5)
    /\ ret.val[2] = <<"[", "a", "b", "b", "]">>
    /\ ret.val[3] = Rep("-", 5)

\* C17: when the template has at least 3 lines and inner_width =
\* len(middle) - 2 is below 1 (a middle line of 0, 1 or 2 characters),
\* _build_separator returns the three template lines unchanged, for every
\* title.
C17_narrow_middle_unchanged ==
    (/\ SeparatorDone
     /\ Len(args.template_lines) >= 3
     /\ Len(args.template_lines[2]) - 2 < 1) =>
        ret.val = SubSeq(args.template_lines, 1, 3)

\* a title of four characters and a middle line of one character: the
\* three lines come back as they are
C17_witness ==
    /\ SeparatorDone
    /\ Len(args.template_lines) >= 3
    /\ Len(args.template_lines[2]) = 1
    /\ Len(args.title) = 4
    /\ ret.val = SubSeq(args.template_lines, 1, 3)

(***************************************************************************)
(* Properties of _extract_motifs (SpecFrame).                              *)
(***************************************************************************)
MotifsDone == pc = "done" /\ args.fn = "_extract_motifs"

\* the positions of the lines long enough for a motif
LongLines(body) == {i \in 1..Len(body) : Len(body[i]) >= 6}

\* the position of the k-th line long enough for a motif
KthLongLine(body, k) ==
    CHOOSE i \in LongLines(body) :
        Cardinality({j \in LongLines(body) : j <= i}) = k

\* C18: _extract_motifs returns, in input order, one (left, right) pair
\* per input line of length >= 6, left the first 3 and right the last 3
\* characters of the line (the two together are the line when it has 6
\* characters); shorter lines contribute nothing and every fragment has
\* length 3.
C18_one_motif_per_long_line ==
    MotifsDone =>
        LET body   == args.lines
            motifs == ret.val
        IN  /\ Len(motifs) = Cardinality(LongLines(body))
            /\ \A k \in 1..Len(motifs) :
                  LET line == body[KthLongLine(body, k)]
                  IN  /\ motifs[k].left = SubSeq(line, 1, 3)
                      /\ motifs[k].right = SubSeq(line, Len(line) - 2, Len(line))
                      /\ Len(motifs[k].left) = 3
                      /\ Len(motifs[k].right) = 3
                      /\ Len(line) = 6 => motifs[k].left \o motifs[k].right = line

\* a body of a 5-character line between a 6-character and a 9-character
\* line: two motifs, the first one splitting its line in two halves
C18_witness ==
    /\ MotifsDone
    /\ Len(args.lines) = 3
    /\ Len(args.lines[1]) = 6
    /\ Len(args.lines[2]) = 5
    /\ Len(args.lines[3]) = 9
    /\ Len(ret.val) = 2
    /\ ret.val[1].left \o ret.val[1].right = args.lines[1]
    /\ ret.val[2] = [left |-> <<"<", "<", "<">>, right |-> <<">", ">", ">">>]

(***************************************************************************)
(* parser_filename.py: parse_filename, the guess of a title, a year and    *)
(* the languages from a file name.  The file names hold no path separator. *)
(***************************************************************************)
\* TAG_TOKENS
TAG_TOKENS ==
    { <<"1", "0", "8", "0", "p">>,
      <<"2", "1", "6", "0", "p">>,
      <<"7", "2", "0", "p">>,
      <<"4", "8", "0", "p">>,
      <<"4", "k">>,
      <<"u", "h", "d">>,
      <<"h", "d", "r">>,
      <<"h", "d", "r", "1", "0">>,
      <<"h", "d", "r", "1", "0", "p", "l", "u", "s">>,
      <<"d", "v">>,
      <<"d", "o", "v", "i">>,
      <<"b", "l", "u", "r", "a", "y">>,
      <<"b", "d", "r", "i", "p">>,
      <<"b", "r", "r", "i", "p">>,
      <<"r", "e", "m", "u", "x">>,
      <<"w", "e", "b">>,
      <<"w", "e", "b", "d", "l">>,
      <<"w", "e", "b", "-", "d", "l">>,
      <<"w", "e", "b", "r", "i", "p">>,
      <<"h", "d", "r", "i", "p">>,
      <<"x", "2", "6", "4">>,
      <<"x", "2", "6", "5">>,
      <<"h", "2", "6", "4">>,
      <<"h", "2", "6", "5">>,
      <<"h", "e", "v", "c">>,
      <<"a", "v", "c">>,
      <<"a", "v", "1">>,
      <<"a", "a", "c">>,
      <<"a", "c", "3">>,
      <<"e", "a", "c", "3">>,
      <<"d", "d", "p">>,
      <<"d", "t", "s">>,
      <<"d", "t", "s", "h", "d">>,
      <<"t", "r", "u", "e", "h", "d">>,
      <<"a", "t", "m", "o", "s">>,
      <<"5", ".", "1">>,
      <<"7", ".", "1">>,
      <<"2", ".", "0">>,
      <<"1", "0", "b", "i", "t">>,
      <<"8", "b", "i", "t">>,
      <<"p", "r", "o", "p", "e", "r">>,
      <<"r", "e", "p", "a", "c", "k">>,
      <<"l", "i", "m", "i", "t", "e", "d">>,
      <<"m", "u", "l", "t", "i">>,
      <<"v", "o", "s", "t", "f", "r">>,
      <<"v", "f", "i">>,
      <<"v", "f">>,
      <<"v", "f", "f">> }

\* LANG_TOKENS: the keywords and the code of each
LANG_TOKENS ==
    { <<<<"f", "r">>, <<"F", "R">>>>,
      <<<<"f", "r", "e", "n", "c", "h">>, <<"F", "R">>>>,
      <<<<"e", "n">>, <<"E", "N">>>>,
      <<<<"e", "n", "g">>, <<"E", "N">>>>,
      <<<<"e", "n", "g", "l", "i", "s", "h">>, <<"E", "N">>>>,
      <<<<"e", "s">>, <<"E", "S">>>>,
      <<<<"s", "p", "a">>, <<"E", "S">>>>,
      <<<<"d", "e">>, <<"D", "E">>>>,
      <<<<"g", "e", "r">>, <<"D", "E">>>>,
      <<<<"i", "t", "a">>, <<"I", "T">>>>,
      <<<<"i", "t">>, <<"I", "T">>>>,
      <<<<"m", "u", "l", "t", "i">>, <<"M", "U", "L", "T", "I">>>> }

LangKeywords == {entry[1] : entry \in LANG_TOKENS}
LangCode(keyword) == (CHOOSE entry \in LANG_TOKENS : entry[1] = keyword)[2]

UpperLetters == <<"A", "B", "C", "D", "E", "F", "G", "H", "I", "J", "K", "L", "M", "N", "O", "P", "Q", "R", "S", "T", "U", "V", "W", "X", "Y", "Z">>
LowerLetters == <<"a", "b", "c", "d", "e", "f", "g", "h", "i", "j", "k", "l", "m", "n", "o", "p", "q", "r", "s", "t", "u", "v", "w", "x", "y", "z">>
Digits == <<"0", "1", "2", "3", "4", "5", "6", "7", "8", "9">>

IsDigit(c) == \E i \in 1..Len(Digits) : Digits[i] = c
digit_value(c) == (CHOOSE i \in 1..Len(Digits) : Digits[i] = c) - 1

\* str.lower()
lower(s) ==
    [i \in 1..Len(s) |->
        IF \E k \in 1..Len(UpperLetters) : UpperLetters[k] = s[i]
        THEN LowerLetters[CHOOSE k \in 1..Len(UpperLetters) : UpperLetters[k] = s[i]]
        ELSE s[i]]

\* YEAR_RE.match: ^(19|20)\d{2}$
YEAR_RE_match(s) ==
    /\ Len(s) = 4
    /\ SubSeq(s, 1, 2) \in {<<"1", "9">>, <<"2", "0">>}
    /\ IsDigit(s[3]) /\ IsDigit(s[4])

\* RESOLUTION_RE.match: ^\d{3,4}p$
RESOLUTION_RE_match(s) ==
    /\ Len(s) \in {4, 5}
    /\ s[Len(s)] = "p"
    /\ \A i \in 1..(Len(s) - 1) : IsDigit(s[i])

\* int(s) of a string of digits
RECURSIVE int_of(_)
int_of(s) ==
    IF s = <<>> THEN 0
    ELSE (10 * int_of(SubSeq(s, 1, Len(s) - 1))) + digit_value(s[Len(s)])

\* Path(filename).stem of a name without a path separator: the name up to
\* its last dot, when that dot is neither its first nor its last character;
\* Path(".") is the current directory, whose name is empty
stem(filename) ==
    LET dots == {i \in 1..Len(filename) : filename[i] = "."}
    IN  IF dots = {} THEN filename
        ELSE IF filename = <<".">> THEN <<>>
        ELSE LET i == CHOOSE d \in dots : \A e \in dots : e <= d
             IN  IF 1 < i /\ i < Len(filename) THEN SubSeq(filename, 1, i - 1)
                 ELSE filename

\* str.replace(old, new) of one character by another
replace(s, old, new) == [i \in 1..Len(s) |-> IF s[i] = old THEN new ELSE s[i]]

OpenBrackets == {"[", "(", "{"}
CloseBrackets == {"]", ")", "}"}

\* re.sub(r"[\[\(\{].*?[\]\)\}]", " ", s): every block from an opening
\* bracket to the next closing bracket becomes one space
RECURSIVE remove_bracketed(_)
remove_bracketed(s) ==
    IF s = <<>> THEN <<>>
    ELSE IF s[1] \in OpenBrackets /\ \E j \in 2..Len(s) : s[j] \in CloseBrackets
    THEN LET j == CHOOSE k \in 2..Len(s) :
                    s[k] \in CloseBrackets /\ \A m \in 2..(k - 1) : s[m] \notin CloseBrackets
         IN  <<" ">> \o remove_bracketed(SubSeq(s, j + 1, Len(s)))
    ELSE <<s[1]>> \o remove_bracketed(Tail(s))

\* re.sub(r"\s*-\s*[^-]+$", " ", s): the last hyphen, the whitespace before
\* it and all that follows become one space, unless the hyphen ends s
remove_group_suffix(s) ==
    LET hyphens == {i \in 1..Len(s) : s[i] = "-"}
    IN  IF hyphens = {} THEN s
        ELSE LET h == CHOOSE i \in hyphens : \A j \in hyphens : j <= i
             IN  IF h = Len(s) THEN s
                 ELSE LET p == CHOOSE q \in 1..h :
                                  /\ \A m \in q..(h - 1) : s[m] \in Whitespace
                                  /\ q > 1 => s[q - 1] \notin Whitespace
                      IN  SubSeq(s, 1, p - 1) \o <<" ">>

\* str.split(): the runs of characters that are not whitespace
RECURSIVE split(_)
split(s) ==
    IF s = <<>> THEN <<>>
    ELSE IF s[1] \in Whitespace THEN split(Tail(s))
    ELSE LET n == RunLength(s)
         IN  <<SubSeq(s, 1, n)>> \o split(SubSeq(s, n + 1, Len(s)))

\* " ".join(list)
RECURSIVE join_spaces(_)
join_spaces(list) ==
    IF list = <<>> THEN <<>>
    ELSE IF Len(list) = 1 THEN list[1]
    ELSE list[1] \o <<" ">> \o join_spaces(Tail(list))

\* the tokens of the name
tokens_of(filename) ==
    split(remove_group_suffix(remove_bracketed(
        replace(replace(stem(filename), ".", " "), "_", " "))))

\* the loop over the tokens; year is the empty tuple for None
RECURSIVE scan_tokens(_, _)
scan_tokens(tokens, acc) ==
    IF tokens = <<>> THEN acc
    ELSE LET token == Head(tokens)
             low   == lower(token)
             rest  == Tail(tokens)
         IN  IF YEAR_RE_match(low) /\ acc.year = <<>>
             THEN scan_tokens(rest, [acc EXCEPT !.year = <<int_of(low)>>])
             ELSE IF low \in LangKeywords
             THEN LET lang == LangCode(low)
                  IN  IF \E i \in 1..Len(acc.languages) : acc.languages[i] = lang
                      THEN scan_tokens(rest, acc)
                      ELSE scan_tokens(rest, [acc EXCEPT !.languages = Append(@, lang)])
             ELSE IF low \in TAG_TOKENS THEN scan_tokens(rest, acc)
             ELSE IF RESOLUTION_RE_match(low) THEN scan_tokens(rest, acc)
             ELSE scan_tokens(rest, [acc EXCEPT !.cleaned = Append(@, token)])

\* a parser that returns the empty title when every token is filtered out
title_of_no_fallback(cleaned, filename) == strip(join_spaces(cleaned))

\* title = " ".join(cleaned).strip(), or the stem when that is empty
title_of(cleaned, filename) ==
    LET title == strip(join_spaces(cleaned))
    IN  IF title = <<>> THEN stem(filename) ELSE title

\* ParsedName(title, year, languages, raw)
parse_filename(filename) ==
    LET acc == scan_tokens(tokens_of(filename),
                           [year |-> <<>>, languages |-> <<>>, cleaned |-> <<>>])
    IN  [title |-> title_of(acc.cleaned, filename), year |-> acc.year,
         languages |-> acc.languages, raw |-> filename]

(***************************************************************************)
(* SpecParse: single calls of parse_filename.  A file name is built from   *)
(* the tokens of its stem, their separator, an optional -group suffix and  *)
(* the extension; only the name itself is handed to the function.          *)
(***************************************************************************)
\* the tokens: title words, years, a resolution, language keywords,
\* technical tags (one of them with a hyphen)
Vocabulary ==
    { <<"O", "r">>,
      <<"l", "e">>,
      <<"2", "0", "1", "7">>,
      <<"1", "9", "9", "9">>,
      <<"5", "7", "6", "p">>,
      <<"F", "R">>,
      <<"f", "r", "e", "n", "c", "h">>,
      <<"e", "n">>,
      <<"X", "2", "6", "4">>,
      <<"W", "E", "B", "-", "D", "L">> }

Separators == {" ", ".", "_"}
GroupSuffixes == {<<>>, <<"-", "m", "H", "D", "g", "z">>}
Extension == <<".", "m", "k", "v">>

RECURSIVE join_with(_, _)
join_with(list, sep) ==
    IF list = <<>> THEN <<>>
    ELSE IF Len(list) = 1 THEN list[1]
    ELSE list[1] \o <<sep>> \o join_with(Tail(list), sep)

FileName(tokens, sep, group) == join_with(tokens, sep) \o group \o Extension

\* the name of test_parse_example
ExampleTokens ==
    << <<"K", "i", "n", "g", "s", "m", "a", "n">>,
       <<"l", "e">>,
       <<"C", "e", "r", "c", "l", "e">>,
       <<"d">>,
       <<"O", "r">>,
       <<"2", "0", "1", "7">>,
       <<"1", "0", "8", "0", "p">>,
       <<"F", "R">>,
       <<"E", "N">>,
       <<"X", "2", "6", "4">>,
       <<"A", "C", "3">> >>

InitParse ==
    /\ pc = "call"
    /\ ret = NoRet
    /\ lines = <<>>
    /\ idx = 0
    /\ heap = <<>>
    /\ framed = <<>>
    /\ NoCli
    /\ NoNet
    /\ \/ \E tokens \in ListsOver(Vocabulary, MaxTokens) \ {<<>>},
             sep \in Separators, group \in GroupSuffixes :
             args = [fn |-> "parse_filename",
                     filename |-> FileName(tokens, sep, group),
                     tokens |-> tokens, group |-> group]
       \/ args = [fn |-> "parse_filename",
                  filename |-> FileName(ExampleTokens, " ", <<"-", "m", "H", "D", "g", "z">>),
                  tokens |-> ExampleTokens, group |-> <<"-", "m", "H", "D", "g", "z">>]

CallParseFilename ==
    /\ pc = "call"
    /\ args.fn = "parse_filename"
    /\ ret' = Returned(parse_filename(args.filename))
    /\ pc' = "done"
    /\ UNCHANGED <<args, lines, idx>>
    /\ UNCHANGED <<heap, framed, cli_vars, net_vars>>

NextParse == CallParseFilename

SpecParse == InitParse /\ [][NextParse]_vars

(***************************************************************************)
(* Properties of parse_filename (SpecParse).                               *)
(***************************************************************************)
ParseDone == pc = "done" /\ args.fn = "parse_filename"

IsYearToken(token) == YEAR_RE_match(lower(token))
IsLanguage(token) == lower(token) \in LangKeywords
IsTag(token) == lower(token) \in TAG_TOKENS
IsResolution(token) == RESOLUTION_RE_match(lower(token))

\* the position of the first token that matches 19dd or 20dd, 0 without one
YearIndex(tokens) ==
    IF \E i \in 1..Len(tokens) : IsYearToken(tokens[i])
    THEN CHOOSE i \in 1..Len(tokens) :
            IsYearToken(tokens[i]) /\ \A j \in 1..(i - 1) : ~IsYearToken(tokens[j])
    ELSE 0

\* the tokens from position i on that are neither the year, a language
\* keyword, a technical tag nor a resolution
RECURSIVE TitleTokensFrom(_, _)
TitleTokensFrom(tokens, i) ==
    IF i > Len(tokens) THEN <<>>
    ELSE (IF \/ i = YearIndex(tokens)
             \/ IsLanguage(tokens[i])
             \/ IsTag(tokens[i])
             \/ IsResolution(tokens[i])
          THEN <<>> ELSE <<tokens[i]>>)
         \o TitleTokensFrom(tokens, i + 1)

\* the year is the value of the first token that matches, None without one
YearIsFirstMatch(tokens, year) ==
    IF YearIndex(tokens) = 0 THEN year = <<>>
    ELSE year = <<int_of(tokens[YearIndex(tokens)])>>

\* the position of the first keyword of a language code among the tokens
FirstKeyword(tokens, code) ==
    CHOOSE i \in 1..Len(tokens) :
        /\ IsLanguage(tokens[i]) /\ LangCode(lower(tokens[i])) = code
        /\ \A j \in 1..(i - 1) :
              ~(IsLanguage(tokens[j]) /\ LangCode(lower(tokens[j])) = code)

\* the codes of the language keywords present, each once, in the order of
\* their first appearance
LanguagesInOrder(tokens, languages) ==
    /\ {languages[i] : i \in 1..Len(languages)}
          = {LangCode(lower(tokens[i])) : i \in {j \in 1..Len(tokens) : IsLanguage(tokens[j])}}
    /\ \A i, j \in 1..Len(languages) :
          i < j => FirstKeyword(tokens, languages[i]) < FirstKeyword(tokens, languages[j])

\* C14 as claimed: the title is the tokens of the stem that are neither the
\* year, a language keyword, a technical tag nor a resolution, joined by
\* single spaces; the year is the first token matching 19dd or 20dd; the
\* languages are the codes of the keywords present, each once, in order of
\* first appearance.
C14_title_year_languages ==
    ParseDone =>
        /\ ret.val.title = join_with(TitleTokensFrom(args.tokens, 1), " ")
        /\ YearIsFirstMatch(args.tokens, ret.val.year)
        /\ LanguagesInOrder(args.tokens, ret.val.languages)

HasHyphen(token) == \E i \in 1..Len(token) : token[i] = "-"

\* a token up to its last hyphen, or nothing when the hyphen starts it
BeforeLastHyphen(token) ==
    LET h == CHOOSE i \in 1..Len(token) :
                token[i] = "-" /\ \A j \in (i + 1)..Len(token) : token[j] # "-"
    IN  IF h = 1 THEN <<>> ELSE <<SubSeq(token, 1, h - 1)>>

\* the tokens left when the stem is cut at its last hyphen: all of them
\* when the name ends with a -group suffix, else those before the last
\* hyphen of the last token that holds one
TokensBeforeLastHyphen(tokens, group) ==
    IF group # <<>> \/ \A i \in 1..Len(tokens) : ~HasHyphen(tokens[i]) THEN tokens
    ELSE LET k == CHOOSE i \in 1..Len(tokens) :
                    HasHyphen(tokens[i]) /\ \A j \in (i + 1)..Len(tokens) : ~HasHyphen(tokens[j])
         IN  SubSeq(tokens, 1, k - 1) \o BeforeLastHyphen(tokens[k])

NameWithoutExtension == SubSeq(args.filename, 1, Len(args.filename) - Len(Extension))

\* C14, what the code returns: the stem is cut at its last hyphen (inside a
\* token too, when no -group suffix follows) and the tokens are what
\* is left; the title is the tokens that are neither the year, a language
\* keyword, a technical tag nor a resolution, joined by single spaces, or
\* the whole stem when no such token is left; the year is the first token
\* matching 19dd or 20dd; the languages are the codes of the keywords
\* present, each once, in order of first appearance.
C14_title_falls_back_to_stem ==
    ParseDone =>
        LET tokens == TokensBeforeLastHyphen(args.tokens, args.group)
            kept   == TitleTokensFrom(tokens, 1)
        IN  /\ ret.val.title = IF kept = <<>> THEN NameWithoutExtension
                               ELSE join_with(kept, " ")
            /\ YearIsFirstMatch(tokens, ret.val.year)
            /\ LanguagesInOrder(tokens, ret.val.languages)
            /\ ret.val.raw = args.filename

\* a name made of a year, a language keyword and a resolution: the title
\* is the stem, the year and the language are found
C14_witness ==
    /\ ParseDone
    /\ args.tokens = <<<<"2", "0", "1", "7">>, <<"F", "R">>, <<"5", "7", "6", "p">>>>
    /\ args.group = <<>>
    /\ ret.val.title = NameWithoutExtension
    /\ ret.val.year = <<2017>>
    /\ ret.val.languages = <<<<"F", "R">>>>

(***************************************************************************)
(* render_nfo_sections: the producer of the eight sections.  A dict is a   *)
(* record that holds every key.  A missing str is the empty str (every use *)
(* of a str value tests `not value` or `value in (None, "")`); an          *)
(* Optional[int] or Optional[bool] is the empty tuple for None and <<v>>   *)
(* for v.  Durations are whole seconds, frame rates thousandths of a frame *)
(* per second, and no number is negative but delay_ms.                     *)
(***************************************************************************)
VIDEO_CODEC_MAP ==
    { <<<<"a", "v", "c">>, <<"H", ".", "2", "6", "4", " ", "(", "A", "V", "C", ")">>>>,
      <<<<"h", "2", "6", "4">>, <<"H", ".", "2", "6", "4", " ", "(", "A", "V", "C", ")">>>>,
      <<<<"h", "e", "v", "c">>, <<"H", ".", "2", "6", "5", " ", "(", "H", "E", "V", "C", ")">>>>,
      <<<<"h", "2", "6", "5">>, <<"H", ".", "2", "6", "5", " ", "(", "H", "E", "V", "C", ")">>>>,
      <<<<"a", "v", "1">>, <<"A", "V", "1">>>> }

AUDIO_CODEC_MAP ==
    { <<<<"a", "c", "-", "3">>, <<"A", "C", "3">>>>,
      <<<<"e", "-", "a", "c", "-", "3">>, <<"E", "-", "A", "C", "3">>>>,
      <<<<"d", "t", "s">>, <<"D", "T", "S">>>>,
      <<<<"a", "a", "c">>, <<"A", "A", "C">>>>,
      <<<<"t", "r", "u", "e", "h", "d">>, <<"T", "r", "u", "e", "H", "D">>>> }

\* utils.LANG_MAP
LANG_MAP ==
    { <<<<"f", "r", "e">>, <<"F", "R">>>>,
      <<<<"f", "r", "a">>, <<"F", "R">>>>,
      <<<<"f", "r">>, <<"F", "R">>>>,
      <<<<"f", "r", "e", "n", "c", "h">>, <<"F", "R">>>>,
      <<<<"e", "n", "g">>, <<"E", "N">>>>,
      <<<<"e", "n">>, <<"E", "N">>>>,
      <<<<"e", "n", "g", "l", "i", "s", "h">>, <<"E", "N">>>>,
      <<<<"g", "e", "r">>, <<"D", "E">>>>,
      <<<<"d", "e", "u">>, <<"D", "E">>>>,
      <<<<"d", "e">>, <<"D", "E">>>>,
      <<<<"s", "p", "a">>, <<"E", "S">>>>,
      <<<<"e", "s">>, <<"E", "S">>>>,
      <<<<"i", "t", "a">>, <<"I", "T">>>>,
      <<<<"i", "t">>, <<"I", "T">>>>,
      <<<<"j", "p", "n">>, <<"J", "A">>>>,
      <<<<"j", "a">>, <<"J", "A">>>>,
      <<<<"c", "h", "i">>, <<"Z", "H">>>>,
      <<<<"z", "h", "o">>, <<"Z", "H">>>> }

\* mapping.get(key, default)
dict_get(mapping, key, default) ==
    IF \E entry \in mapping : entry[1] = key
    THEN (CHOOSE entry \in mapping : entry[1] = key)[2]
    ELSE default

\* truthiness of an Optional[int]
truthy(v) == v # <<>> /\ v[1] # 0

\* str(n) of a natural number
RECURSIVE str_of_nat(_)
str_of_nat(n) ==
    IF n < 10 THEN <<Digits[n + 1]>>
    ELSE str_of_nat(n \div 10) \o <<Digits[(n % 10) + 1]>>

\* str(n)
str_of_int(n) == IF n < 0 THEN <<"-">> \o str_of_nat(0 - n) ELSE str_of_nat(n)

\* f"{n:02d}" of a natural number
two_digits(n) == IF n < 10 THEN <<"0">> \o str_of_nat(n) ELSE str_of_nat(n)

\* str.upper()
upper(s) ==
    [i \in 1..Len(s) |->
        IF \E k \in 1..Len(LowerLetters) : LowerLetters[k] = s[i]
        THEN UpperLetters[CHOOSE k \in 1..Len(LowerLetters) : LowerLetters[k] = s[i]]
        ELSE s[i]]

\* ", ".join(list) and " + ".join(list)
RECURSIVE join_by(_, _)
join_by(list, sep) ==
    IF list = <<>> THEN <<>>
    ELSE IF Len(list) = 1 THEN list[1]
    ELSE list[1] \o sep \o join_by(Tail(list), sep)

\* round(x / d) of the naturals x and d, ties to the even integer
round_half_even(x, d) ==
    LET q == x \div d
        r == x % d
    IN  IF 2 * r > d THEN q + 1
        ELSE IF 2 * r < d THEN q
        ELSE IF q % 2 = 0 THEN q ELSE q + 1

\* utils.normalize_language; None is the empty str
normalize_language(value) ==
    IF value = <<>> THEN <<>>
    ELSE LET v == lower(strip(value))
         IN  IF v = <<>> THEN <<>>
             ELSE dict_get(LANG_MAP, v, upper(v))

\* utils.format_duration
format_duration(seconds) ==
    IF seconds = <<>> THEN <<"N", "/", "A">>
    ELSE LET total   == seconds[1]
             hours   == total \div 3600
             minutes == (total % 3600) \div 60
             secs    == total % 60
         IN  two_digits(hours) \o <<":">> \o two_digits(minutes) \o <<":">> \o two_digits(secs)

\* the hundredths of a GiB in bytes_value: 100 * bytes_value / 2^30 rounded
\* to the nearest integer, ties to even; the bytes are split so that no
\* product leaves the 32-bit integers
gib_hundredths(bytes_value) ==
    LET unit  == 1024 * 1024 * 1024
        whole == bytes_value \div unit
        rest  == bytes_value % unit
        \* 100 * rest / 2^30 = 25 * rest / 2^28 = 25 * (hi * 2^14 + lo) / 2^28
        hi    == rest \div 16384
        lo    == rest % 16384
        \* 25 * hi = a * 2^14 + b
        a     == (25 * hi) \div 16384
        b     == (25 * hi) % 16384
        \* 25 * rest = a * 2^28 + (b * 2^14 + 25 * lo)
        low   == (b * 16384) + (25 * lo)
        quot  == a + (low \div 268435456)
        rem   == low % 268435456
        up    == IF rem > 134217728 THEN 1
                 ELSE IF rem < 134217728 THEN 0
                 ELSE quot % 2
    IN  (100 * whole) + quot + up

\* utils.format_size: f"{gib:.2f} GiB"
format_size(bytes_value) ==
    IF bytes_value = <<>> THEN <<"N", "/", "A">>
    ELSE LET h == gib_hundredths(bytes_value[1])
         IN  str_of_nat(h \div 100) \o <<".">> \o two_digits(h % 100) \o <<" ", "G", "i", "B">>

\* utils.format_bitrate
format_bitrate(bits_per_sec) ==
    IF bits_per_sec = <<>> THEN <<"N", "/", "A">>
    ELSE str_of_nat(round_half_even(bits_per_sec[1], 1000)) \o <<" ", "k", "b", "/", "s">>

\* height or width
first_truthy(height, width) == IF truthy(height) THEN height[1] ELSE width[1]

\* utils.quality_from_resolution
quality_from_resolution(height, width) ==
    IF ~truthy(height) /\ ~truthy(width) THEN <<"N", "/", "A">>
    ELSE IF truthy(height) /\ height[1] >= 2160 THEN <<"2", "1", "6", "0", "p">>
    ELSE IF truthy(height) /\ height[1] >= 1440 THEN <<"1", "4", "4", "0", "p">>
    ELSE IF truthy(height) /\ height[1] >= 1080 THEN <<"1", "0", "8", "0", "p">>
    ELSE IF truthy(width) /\ width[1] >= 3840 THEN <<"2", "1", "6", "0", "p">>
    ELSE IF truthy(width) /\ width[1] >= 2560 THEN <<"1", "4", "4", "0", "p">>
    ELSE IF truthy(width) /\ width[1] >= 1920 THEN <<"1", "0", "8", "0", "p">>
    ELSE IF truthy(height) /\ height[1] >= 720 THEN <<"7", "2", "0", "p">>
    ELSE IF truthy(width) /\ width[1] >= 1280 THEN <<"7", "2", "0", "p">>
    ELSE IF truthy(height) /\ height[1] >= 576 THEN <<"5", "7", "6", "p">>
    ELSE str_of_nat(first_truthy(height, width)) \o <<"p">>

_codec_label(value, mapping) ==
    IF value = <<>> THEN <<"N", "/", "A">>
    ELSE dict_get(mapping, lower(strip(value)), value)

\* _kv: None is the empty str
_kv(key, value) == IF value = <<>> THEN <<>> ELSE key \o <<":", " ">> \o value

\* _bool_label: None is the empty str
_bool_label(value) ==
    IF value = <<>> THEN <<>> ELSE IF value[1] THEN <<"Y", "e", "s">> ELSE <<"N", "o">>

\* _channels_label: None is the empty str
_channels_label(channels) ==
    IF ~truthy(channels) THEN <<>>
    ELSE IF channels[1] = 1 THEN <<"1", ".", "0">>
    ELSE IF channels[1] = 2 THEN <<"2", ".", "0">>
    ELSE IF channels[1] = 6 THEN <<"5", ".", "1">>
    ELSE IF channels[1] = 8 THEN <<"7", ".", "1">>
    ELSE str_of_int(channels[1])

\* one part of _audio_summary
audio_part(audio) ==
    LET lang     == IF normalize_language(audio.language) = <<>> THEN <<"N", "/", "A">>
                    ELSE normalize_language(audio.language)
        codec    == _codec_label(audio.codec, AUDIO_CODEC_MAP)
        channels == _channels_label(audio.channels)
    IN  IF channels # <<>> THEN lang \o <<" ">> \o codec \o <<" ">> \o channels
        ELSE lang \o <<" ">> \o codec

_audio_summary(audios) ==
    IF audios = <<>> THEN <<"N", "/", "A">>
    ELSE join_by([i \in 1..Len(audios) |-> audio_part(audios[i])], <<" ", "+", " ">>)

_video_summary(videos) ==
    IF videos = <<>> THEN <<"N", "/", "A">>
    ELSE _codec_label(videos[1].codec, VIDEO_CODEC_MAP)

\* _resolution: None is the empty str
_resolution(video) ==
    IF truthy(video.width) /\ truthy(video.height)
    THEN str_of_int(video.width[1]) \o <<"x">> \o str_of_int(video.height[1])
    ELSE <<>>

\* f"{n:03d}" of a natural number below 1000
three_digits(n) ==
    IF n < 10 THEN <<"0", "0">> \o str_of_nat(n)
    ELSE IF n < 100 THEN <<"0">> \o str_of_nat(n)
    ELSE str_of_nat(n)

\* _frame_rate: f"{rate:.3f} FPS" of a rate given in thousandths
_frame_rate(video) ==
    IF ~truthy(video.frame_rate) THEN <<>>
    ELSE str_of_nat(video.frame_rate[1] \div 1000) \o <<".">>
             \o three_digits(video.frame_rate[1] % 1000) \o <<" ", "F", "P", "S">>

\* _int_unit: None is the empty str
_int_unit(value, unit) ==
    IF value = <<>> THEN <<>> ELSE str_of_int(value[1]) \o <<" ">> \o unit

\* list(filter(None, list))
RECURSIVE filter_none(_)
filter_none(list) ==
    IF list = <<>> THEN <<>>
    ELSE (IF Head(list) = <<>> THEN <<>> ELSE <<Head(list)>>) \o filter_none(Tail(list))

\* release[:4].isdigit()
isdigit(s) == s # <<>> /\ \A i \in 1..Len(s) : IsDigit(s[i])

\* the title and the year that the sections show
title_of_movie(movie, general, title_override) ==
    LET title == IF movie.given /\ movie.title # <<>> THEN movie.title ELSE title_override
    IN  IF title # <<>> THEN title
        ELSE IF general.filename # <<>> THEN general.filename
        ELSE <<"U", "n", "k", "n", "o", "w", "n">>

year_of_movie(movie, year_override) ==
    LET release == SliceTo(movie.release_date, 4)
    IN  IF movie.given /\ ~truthy(year_override) /\ isdigit(release)
        THEN <<int_of(release)>>
        ELSE year_override

header_of(title, year, videos, audios, source_override) ==
    LET title_line == IF truthy(year)
                      THEN title \o <<" ", "(">> \o str_of_int(year[1]) \o <<")">>
                      ELSE title
        resolution == IF videos # <<>>
                      THEN quality_from_resolution(videos[1].height, videos[1].width)
                      ELSE <<"N", "/", "A">>
        source     == IF source_override # <<>> THEN source_override ELSE <<"N", "/", "A">>
    IN  title_line \o <<NL>> \o <<"S", "o", "u", "r", "c", "e", ":", " ">> \o source \o <<" ", " ", "|", " ", " ", "R", "e", "s", "o", "l", "u", "t", "i", "o", "n", ":", " ">> \o resolution
            \o <<" ", " ", "|", " ", " ", "V", "i", "d", "e", "o", ":", " ">> \o _video_summary(videos) \o <<" ", " ", "|", " ", " ">> \o <<"A", "u", "d", "i", "o", ":", " ">>
            \o _audio_summary(audios)

movie_lines_of(movie, title, year, match_note) ==
    IF movie.given
    THEN filter_none(<<
            _kv(<<"T", "i", "t", "l", "e">>, movie.title),
            _kv(<<"O", "r", "i", "g", "i", "n", "a", "l", " ", "T", "i", "t", "l", "e">>, movie.original_title),
            _kv(<<"Y", "e", "a", "r">>, IF truthy(year) THEN str_of_int(year[1]) ELSE <<>>),
            _kv(<<"R", "u", "n", "t", "i", "m", "e">>, IF truthy(movie.runtime)
                           THEN str_of_int(movie.runtime[1]) \o <<" ", "m", "i", "n">> ELSE <<>>),
            _kv(<<"G", "e", "n", "r", "e", "s">>, join_by(movie.genres, <<",", " ">>)),
            _kv(<<"C", "o", "u", "n", "t", "r", "i", "e", "s">>, join_by(movie.production_countries, <<",", " ">>)),
            _kv(<<"T", "M", "D", "B", " ", "U", "R", "L">>, movie.tmdb_url),
            _kv(<<"I", "M", "D", "b", " ", "U", "R", "L">>, movie.imdb_url),
            _kv(<<"T", "M", "D", "B", " ", "M", "a", "t", "c", "h">>, match_note) >>)
    ELSE <<IF _kv(<<"T", "i", "t", "l", "e">>, title) # <<>> THEN _kv(<<"T", "i", "t", "l", "e">>, title)
           ELSE <<"T", "i", "t", "l", "e", " ", " ", " ", " ", " ", " ", " ", " ", " ", " ", " ", " ", " ", " ", " ", " ", " ", " ", " ", " ", " ", " ", " ", " ", ":", " ", "N", "/", "A">>>>

general_lines_of(general) ==
    filter_none(<<
        _kv(<<"F", "i", "l", "e", "n", "a", "m", "e">>, general.filename),
        _kv(<<"E", "x", "t", "e", "n", "s", "i", "o", "n">>, general.extension),
        _kv(<<"F", "i", "l", "e", " ", "S", "i", "z", "e">>, format_size(general.size_bytes)),
        _kv(<<"D", "u", "r", "a", "t", "i", "o", "n">>, format_duration(general.duration_sec)),
        _kv(<<"O", "v", "e", "r", "a", "l", "l", " ", "B", "i", "t", "r", "a", "t", "e">>, format_bitrate(general.overall_bitrate)),
        _kv(<<"C", "o", "n", "t", "a", "i", "n", "e", "r">>, general.container),
        _kv(<<"E", "n", "c", "o", "d", "e", "d", " ", "D", "a", "t", "e">>, general.encoded_date),
        _kv(<<"W", "r", "i", "t", "i", "n", "g", " ", "A", "p", "p">>, general.writing_app),
        _kv(<<"W", "r", "i", "t", "i", "n", "g", " ", "L", "i", "b", "r", "a", "r", "y">>, general.writing_library) >>)

video_block(video, track_idx, several) ==
    (IF several THEN <<<<"V", "i", "d", "e", "o", " ", "#">> \o str_of_int(track_idx)>> ELSE <<>>)
    \o filter_none(<<
        _kv(<<"F", "o", "r", "m", "a", "t">>, _codec_label(video.codec, VIDEO_CODEC_MAP)),
        _kv(<<"P", "r", "o", "f", "i", "l", "e">>, video.profile),
        _kv(<<"B", "i", "t", "r", "a", "t", "e">>, format_bitrate(video.bitrate)),
        _kv(<<"R", "e", "s", "o", "l", "u", "t", "i", "o", "n">>, _resolution(video)),
        _kv(<<"A", "s", "p", "e", "c", "t", " ", "R", "a", "t", "i", "o">>, video.aspect_ratio),
        _kv(<<"F", "r", "a", "m", "e", " ", "R", "a", "t", "e">>, _frame_rate(video)),
        _kv(<<"S", "c", "a", "n", " ", "T", "y", "p", "e">>, video.scan_type),
        _kv(<<"B", "i", "t", " ", "D", "e", "p", "t", "h">>, _int_unit(video.bit_depth, <<"b", "i", "t", "s">>)),
        _kv(<<"C", "h", "r", "o", "m", "a">>, video.chroma),
        _kv(<<"C", "o", "l", "o", "r", " ", "P", "r", "i", "m", "a", "r", "i", "e", "s">>, video.color_primaries),
        _kv(<<"T", "r", "a", "n", "s", "f", "e", "r">>, video.color_transfer),
        _kv(<<"M", "a", "t", "r", "i", "x">>, video.color_matrix),
        _kv(<<"H", "D", "R">>, video.hdr) >>)
    \o (IF several THEN <<<<>>>> ELSE <<>>)

audio_block(audio, track_idx) ==
    <<<<"A", "u", "d", "i", "o", " ", "#">> \o str_of_int(track_idx)>>
    \o filter_none(<<
        _kv(<<"F", "o", "r", "m", "a", "t">>, _codec_label(audio.codec, AUDIO_CODEC_MAP)),
        _kv(<<"B", "i", "t", "r", "a", "t", "e">>, format_bitrate(audio.bitrate)),
        _kv(<<"C", "h", "a", "n", "n", "e", "l", "s">>, _channels_label(audio.channels)),
        _kv(<<"C", "h", "a", "n", "n", "e", "l", " ", "L", "a", "y", "o", "u", "t">>, audio.channel_layout),
        _kv(<<"S", "a", "m", "p", "l", "e", " ", "R", "a", "t", "e">>, _int_unit(audio.sample_rate, <<"H", "z">>)),
        _kv(<<"L", "a", "n", "g", "u", "a", "g", "e">>, audio.language),
        _kv(<<"T", "i", "t", "l", "e">>, audio.title),
        _kv(<<"D", "e", "f", "a", "u", "l", "t">>, _bool_label(audio.default)),
        _kv(<<"F", "o", "r", "c", "e", "d">>, _bool_label(audio.forced)),
        _kv(<<"D", "e", "l", "a", "y">>, _int_unit(audio.delay_ms, <<"m", "s">>)) >>)
    \o <<<<>>>>

subtitle_block(sub, track_idx) ==
    <<<<"S", "u", "b", "t", "i", "t", "l", "e", " ", "#">> \o str_of_int(track_idx)>>
    \o filter_none(<<
        _kv(<<"F", "o", "r", "m", "a", "t">>, sub.format),
        _kv(<<"L", "a", "n", "g", "u", "a", "g", "e">>, sub.language),
        _kv(<<"T", "i", "t", "l", "e">>, sub.title),
        _kv(<<"D", "e", "f", "a", "u", "l", "t">>, _bool_label(sub.default)),
        _kv(<<"F", "o", "r", "c", "e", "d">>, _bool_label(sub.forced)) >>)
    \o <<<<>>>>

\* the blocks of the tracks one after the other
RECURSIVE flatten(_)
flatten(blocks) ==
    IF blocks = <<>> THEN <<>> ELSE Head(blocks) \o flatten(Tail(blocks))

video_lines_of(videos) ==
    IF videos = <<>> THEN <<<<"N", "/", "A">>>>
    ELSE flatten([i \in 1..Len(videos) |-> video_block(videos[i], i, Len(videos) > 1)])

audio_lines_of(audios) ==
    IF audios = <<>> THEN <<<<"N", "/", "A">>>>
    ELSE flatten([i \in 1..Len(audios) |-> audio_block(audios[i], i)])

subtitle_lines_of(subtitles) ==
    IF subtitles = <<>> THEN <<<<"N", "/", "A">>>>
    ELSE flatten([i \in 1..Len(subtitles) |-> subtitle_block(subtitles[i], i)])

file_lines_of(file_info) ==
    filter_none(<<
        _kv(<<"S", "i", "z", "e">>, format_size(file_info.size_bytes)),
        _kv(<<"D", "u", "r", "a", "t", "i", "o", "n">>, format_duration(file_info.duration_sec)),
        _kv(<<"H", "a", "s", "h">>, file_info.hash) >>)

summary_lines_of(movie) ==
    IF movie.given /\ movie.overview # <<>> THEN <<movie.overview>> ELSE <<<<"N", "/", "A">>>>

\* a section list that keeps an empty line list as it is
or_sentinel_absent(section_lines) == section_lines

\* lines or ["N/A"]
or_sentinel(section_lines) == IF section_lines = <<>> THEN <<<<"N", "/", "A">>>> ELSE section_lines

render_nfo_sections(movie, tech, file_info, match_note, title_override, year_override, source_override) ==
    LET title == title_of_movie(movie, tech.general, title_override)
        year  == year_of_movie(movie, year_override)
    IN  << [name |-> <<"H", "e", "a", "d", "e", "r">>,
            lines |-> <<header_of(title, year, tech.videos, tech.audios, source_override)>>],
           [name |-> <<"M", "o", "v", "i", "e">>,
            lines |-> or_sentinel(movie_lines_of(movie, title, year, match_note))],
           [name |-> <<"S", "u", "m", "m", "a", "r", "y">>, lines |-> summary_lines_of(movie)],
           [name |-> <<"G", "e", "n", "e", "r", "a", "l">>, lines |-> or_sentinel(general_lines_of(tech.general))],
           [name |-> <<"V", "i", "d", "e", "o">>, lines |-> or_sentinel(video_lines_of(tech.videos))],
           [name |-> <<"A", "u", "d", "i", "o">>, lines |-> or_sentinel(audio_lines_of(tech.audios))],
           [name |-> <<"S", "u", "b", "t", "i", "t", "l", "e", "s">>, lines |-> or_sentinel(subtitle_lines_of(tech.subtitles))],
           [name |-> <<"F", "i", "l", "e">>, lines |-> or_sentinel(file_lines_of(file_info))] >>

(***************************************************************************)
(* SpecSections: single calls of render_nfo_sections, on movie records,    *)
(* technical metadata and file information with and without their fields. *)
(***************************************************************************)
NoMovie ==
    [given |-> FALSE, title |-> <<>>, original_title |-> <<>>, release_date |-> <<>>,
     runtime |-> <<>>, genres |-> <<>>, production_countries |-> <<>>,
     tmdb_url |-> <<>>, imdb_url |-> <<>>, overview |-> <<>>]

\* movie is None, or a record whose fields are there or not
MovieSamples ==
    {NoMovie} \cup
    [given : {TRUE}, title : {<<>>, <<"D", "u", "n", "e">>}, original_title : {<<>>},
     release_date : {<<>>, <<"2", "0", "2", "1", "-", "0", "9", "-", "1", "5">>}, runtime : {<<>>, <<155>>},
     genres : {<<>>, <<<<"S", "F">>, <<"D", "r", "a", "m", "a">>>>}, production_countries : {<<>>},
     tmdb_url : {<<>>}, imdb_url : {<<>>}, overview : {<<>>, <<"A", " ", "d", "u", "k", "e", ".">>}]
    \cup
    {[given |-> TRUE, title |-> <<"D", "u", "n", "e">>, original_title |-> <<"D", "u", "n", "e">>,
      release_date |-> <<"n", "/", "a">>, runtime |-> <<0>>, genres |-> <<<<"S", "F">>>>,
      production_countries |-> <<<<"U", "S">>, <<"C", "A">>>>, tmdb_url |-> <<"h", "t", "t", "p", ":", "/", "/", "t", "/", "1">>,
      imdb_url |-> <<"h", "t", "t", "p", ":", "/", "/", "i", "/", "t", "t", "1">>, overview |-> <<" ">>]}

EmptyGeneral ==
    [filename |-> <<>>, extension |-> <<>>, size_bytes |-> <<>>, duration_sec |-> <<>>,
     overall_bitrate |-> <<>>, container |-> <<>>, encoded_date |-> <<>>,
     writing_app |-> <<>>, writing_library |-> <<>>]

FullGeneral ==
    [filename |-> <<"d", "u", "n", "e", ".", "m", "k", "v">>, extension |-> <<"m", "k", "v">>, size_bytes |-> <<1616048947>>,
     duration_sec |-> <<9300>>, overall_bitrate |-> <<4500500>>, container |-> <<"M", "a", "t", "r", "o", "s", "k", "a">>,
     encoded_date |-> <<"2", "0", "2", "1">>, writing_app |-> <<"m", "k", "v", "m", "e", "r", "g", "e">>, writing_library |-> <<"l", "i", "b", "e", "b", "m", "l">>]

EmptyVideo ==
    [codec |-> <<>>, profile |-> <<>>, bitrate |-> <<>>, width |-> <<>>, height |-> <<>>,
     aspect_ratio |-> <<>>, frame_rate |-> <<>>, scan_type |-> <<>>, bit_depth |-> <<>>,
     chroma |-> <<>>, color_primaries |-> <<>>, color_transfer |-> <<>>,
     color_matrix |-> <<>>, hdr |-> <<>>]

FullVideo ==
    [codec |-> <<" ", "H", "E", "V", "C">>, profile |-> <<"M", "a", "i", "n", " ", "1", "0">>, bitrate |-> <<3999500>>, width |-> <<1920>>,
     height |-> <<804>>, aspect_ratio |-> <<"2", ".", "3", "9", ":", "1">>, frame_rate |-> <<23976>>,
     scan_type |-> <<"P", "r", "o", "g", "r", "e", "s", "s", "i", "v", "e">>, bit_depth |-> <<10>>, chroma |-> <<"4", ":", "2", ":", "0">>,
     color_primaries |-> <<"B", "T", ".", "2", "0", "2", "0">>, color_transfer |-> <<"P", "Q">>, color_matrix |-> <<"B", "T", ".", "2", "0", "2", "0">>,
     hdr |-> <<"H", "D", "R", "1", "0">>]

SmallVideo ==
    [EmptyVideo EXCEPT !.codec = <<"v", "p", "9">>, !.width = <<640>>, !.height = <<0>>,
                       !.bit_depth = <<0>>, !.frame_rate = <<25000>>]

VideoLists == {<<>>, <<EmptyVideo>>, <<FullVideo>>, <<SmallVideo, FullVideo>>}

EmptyAudio ==
    [codec |-> <<>>, bitrate |-> <<>>, channels |-> <<>>, channel_layout |-> <<>>,
     sample_rate |-> <<>>, language |-> <<>>, title |-> <<>>, default |-> <<>>,
     forced |-> <<>>, delay_ms |-> <<>>]

FullAudio ==
    [codec |-> <<"E", "-", "A", "C", "-", "3">>, bitrate |-> <<640000>>, channels |-> <<6>>,
     channel_layout |-> <<"L", " ", "R", " ", "C", " ", "L", "F", "E", " ", "L", "s", " ", "R", "s">>, sample_rate |-> <<48000>>, language |-> <<"f", "r", "e">>,
     title |-> <<"V", "F", "F">>, default |-> <<TRUE>>, forced |-> <<FALSE>>, delay_ms |-> <<0 - 80>>]

OtherAudio ==
    [EmptyAudio EXCEPT !.codec = <<"o", "p", "u", "s">>, !.channels = <<3>>, !.language = <<" ", "J", "p", " ">>]

AudioLists == {<<>>, <<EmptyAudio>>, <<FullAudio, OtherAudio>>}

EmptySubtitle ==
    [format |-> <<>>, language |-> <<>>, title |-> <<>>, default |-> <<>>, forced |-> <<>>]

FullSubtitle ==
    [format |-> <<"S", "R", "T">>, language |-> <<"e", "n", "g">>, title |-> <<"S", "D", "H">>, default |-> <<FALSE>>,
     forced |-> <<TRUE>>]

SubtitleLists == {<<>>, <<EmptySubtitle>>, <<FullSubtitle, EmptySubtitle>>}

EmptyFileInfo == [size_bytes |-> <<>>, duration_sec |-> <<>>, hash |-> <<>>]
FullFileInfo == [size_bytes |-> <<0>>, duration_sec |-> <<59>>, hash |-> <<"c", "0", "f", "f", "e", "e">>]

\* match_note, title_override, year_override, source_override
Overrides ==
    { [match_note |-> <<>>, title_override |-> <<>>, year_override |-> <<>>,
       source_override |-> <<>>],
      [match_note |-> <<>>, title_override |-> <<"A", "r", "r", "a", "k", "i", "s">>, year_override |-> <<1984>>,
       source_override |-> <<>>],
      [match_note |-> <<"e", "x", "a", "c", "t">>, title_override |-> <<>>, year_override |-> <<0>>,
       source_override |-> <<"B", "L", "U", "R", "A", "Y">>],
      [match_note |-> <<"e", "x", "a", "c", "t">>, title_override |-> <<"A", "r", "r", "a", "k", "i", "s">>, year_override |-> <<1984>>,
       source_override |-> <<"B", "L", "U", "R", "A", "Y">>] }

InitSections ==
    /\ pc = "call"
    /\ ret = NoRet
    /\ lines = <<>>
    /\ idx = 0
    /\ heap = <<>>
    /\ framed = <<>>
    /\ NoCli
    /\ NoNet
    /\ \E o \in Overrides :
          args \in [fn : {"render_nfo_sections"},
                    movie : MovieSamples,
                    tech : [general : {EmptyGeneral, FullGeneral}, videos : VideoLists,
                            audios : AudioLists, subtitles : SubtitleLists],
                    file_info : {EmptyFileInfo, FullFileInfo},
                    match_note : {o.match_note},
                    title_override : {o.title_override},
                    year_override : {o.year_override},
                    source_override : {o.source_override}]

CallRenderNfoSections ==
    /\ pc = "call"
    /\ args.fn = "render_nfo_sections"
    /\ ret' = Returned(render_nfo_sections(args.movie, args.tech, args.file_info,
                                           args.match_note, args.title_override,
                                           args.year_override, args.source_override))
    /\ pc' = "done"
    /\ UNCHANGED <<args, lines, idx>>
    /\ UNCHANGED <<heap, framed, cli_vars, net_vars>>

NextSections == CallRenderNfoSections

SpecSections == InitSections /\ [][NextSections]_vars

(***************************************************************************)
(* Properties of render_nfo_sections (SpecSections).                       *)
(***************************************************************************)
SectionsDone == pc = "done" /\ args.fn = "render_nfo_sections"

EightNames ==
    <<<<"H", "e", "a", "d", "e", "r">>, <<"M", "o", "v", "i", "e">>, <<"S", "u", "m", "m", "a", "r", "y">>, <<"G", "e", "n", "e", "r", "a", "l">>, <<"V", "i", "d", "e", "o">>, <<"A", "u", "d", "i", "o">>, <<"S", "u", "b", "t", "i", "t", "l", "e", "s">>, <<"F", "i", "l", "e">>>>

Sentinel == <<<<"N", "/", "A">>>>

SectionLines(i) == ret.val[i].lines

\* a movie record was found but none of the fields of the Movie section is
\* filled, and neither a year nor a match note is known
MovieWithoutContent ==
    /\ args.movie.given
    /\ args.movie.title = <<>> /\ args.movie.original_title = <<>>
    /\ ~truthy(args.year_override)
    /\ ~isdigit(SliceTo(args.movie.release_date, 4))
    /\ ~truthy(args.movie.runtime)
    /\ args.movie.genres = <<>> /\ args.movie.production_countries = <<>>
    /\ args.movie.tmdb_url = <<>> /\ args.movie.imdb_url = <<>>
    /\ args.match_note = <<>>

\* C15: render_nfo_sections returns the eight sections Header, Movie,
\* Summary, General, Video, Audio, Subtitles, File in that order, each with
\* a non-empty line sequence; a section with no content (a movie record
\* without a filled field, no overview, no video, audio or subtitle track)
\* is the single line N/A.
C15_eight_sections_never_empty ==
    SectionsDone =>
        /\ Len(ret.val) = 8
        /\ \A i \in 1..8 : ret.val[i].name = EightNames[i] /\ SectionLines(i) # <<>>
        /\ Len(SectionLines(1)) = 1
        /\ MovieWithoutContent => SectionLines(2) = Sentinel
        /\ (~args.movie.given \/ args.movie.overview = <<>>) => SectionLines(3) = Sentinel
        /\ args.tech.videos = <<>> => SectionLines(5) = Sentinel
        /\ args.tech.audios = <<>> => SectionLines(6) = Sentinel
        /\ args.tech.subtitles = <<>> => SectionLines(7) = Sentinel

\* a movie record without a filled field, no track and no technical data:
\* Movie, Summary, Video, Audio and Subtitles are the line N/A, General and
\* File hold the N/A values of their formatters
C15_witness ==
    /\ SectionsDone
    /\ MovieWithoutContent
    /\ args.tech.general = EmptyGeneral
    /\ args.tech.videos = <<>> /\ args.tech.audios = <<>> /\ args.tech.subtitles = <<>>
    /\ args.file_info = EmptyFileInfo
    /\ \A i \in {2, 3, 5, 6, 7} : SectionLines(i) = Sentinel
    /\ SectionLines(4) = <<<<"F", "i", "l", "e", " ", "S", "i", "z", "e", ":", " ", "N", "/", "A">>, <<"D", "u", "r", "a", "t", "i", "o", "n", ":", " ", "N", "/", "A">>, <<"O", "v", "e", "r", "a", "l", "l", " ", "B", "i", "t", "r", "a", "t", "e", ":", " ", "N", "/", "A">>>>
    /\ SectionLines(8) = <<<<"S", "i", "z", "e", ":", " ", "N", "/", "A">>, <<"D", "u", "r", "a", "t", "i", "o", "n", ":", " ", "N", "/", "A">>>>


(***************************************************************************)
(* SpecShared: two callers of render_nfo_from_sections on the same         *)
(* sections object, run one after the other or interleaved.  The lists of  *)
(* the program are objects of a heap: heap[a] is the sequence of the lists *)
(* allocated in arena a, and a reference is a pair <<arena, index>>.  The  *)
(* arena "shared" holds what the callers pass in (the list of sections and *)
(* the line list of each section); the arena of a caller holds what its    *)
(* call allocates (the three banners _read_banner returns, the list named  *)
(* lines, and the lists _build_separator and _frame_section_lines return). *)
(* The banner files are read, never written: args holds their content.     *)
(***************************************************************************)
Callers == {"first", "second"}

SharedArena == "shared"

\* the reference of the list of sections, and those of a call's own lists
SectionsRef == <<SharedArena, 1>>
header_banner_ref(c) == <<c, 1>>
footer_banner_ref(c) == <<c, 2>>
separator_template_ref(c) == <<c, 3>>
lines_ref(c) == <<c, 4>>

\* the object a reference points to
deref(h, r) == h[r[1]][r[2]]

\* the objects the callers pass in: the list of (name, section_lines) with
\* section_lines a reference, then each section's line list
SharedHeap(a) ==
    << [i \in 1..Len(a.sections) |->
           [name |-> a.sections[i].name, lines |-> <<SharedArena, i + 1>>]] >>
    \o [i \in 1..Len(a.sections) |-> a.sections[i].lines]

\* a new list object holding content
new_list(h, arena, content) ==
    [heap |-> [h EXCEPT ![arena] = Append(@, content)],
     ref |-> <<arena, Len(h[arena]) + 1>>]

\* a pass-through that returns the list it was given
list_alias(h, arena, r) == [heap |-> h, ref |-> r]

\* list(lines)
list_copy(h, arena, r) == new_list(h, arena, deref(h, r))

\* the two early returns of _frame_section_lines
is_degraded(template) ==
    \/ Len(template) < 4
    \/ _extract_motifs(SubSeq(template, 4, Len(template))) = <<>>

\* the outcome of a call that returned the list object made
returned_object(made) ==
    [tag |-> "ok", raised |-> NoRet, heap |-> made.heap, ref |-> made.ref]

\* what _frame_section_lines returns as an object: list(lines) on the
\* degraded paths, else the list named framed that holds result
framer_outcome(h, arena, section_lines, degraded, result) ==
    IF degraded THEN returned_object(list_copy(h, arena, section_lines))
    ELSE IF result.tag = "raised"
    THEN [tag |-> "raised", raised |-> result, heap |-> h, ref |-> <<>>]
    ELSE returned_object(new_list(h, arena, result.val))

\* _frame_section_lines on list objects
call_frame_section_lines(h, arena, section_lines, template_lines, wrap, pad, use_dots, add_pad_lines) ==
    framer_outcome(h, arena, section_lines,
                   is_degraded(deref(h, template_lines)),
                   _frame_section_lines(deref(h, section_lines),
                                        deref(h, template_lines),
                                        wrap, pad, use_dots, add_pad_lines))

\* _build_separator on list objects: [] or [top, middle, bottom], a new list
call_build_separator(h, arena, title, template_lines) ==
    new_list(h, arena, _build_separator(title, deref(h, template_lines)))

\* lst.extend(more)
extend(h, r, more) == [h EXCEPT ![r[1]][r[2]] = @ \o more]

\* the sections two callers share: a framed Header, a wrapped Summary, a
\* section with blank lines
SharedSectionChoices ==
    { [name |-> HeaderName, lines |-> << <<"X", ":", " ", "Y">> >>],
      [name |-> SummaryName,
       lines |-> << <<"a", "b", " ", "c", "d">>, <<" ">>, <<>> >>],
      [name |-> GeneralName, lines |-> << <<"X", ":", " ", "Y">> >>] }

\* separator.txt: missing, too short for a motif, whole, too narrow
SharedTemplates ==
    { <<>>,
      SubSeq(FullTemplate(24), 1, 3) \o << <<"<", ">">> >>,
      FullTemplate(24),
      FullTemplate(8) }

InitShared ==
    /\ args \in [fn : {"render_nfo_from_sections"},
                 sections : ListsOver(SharedSectionChoices, MaxSections),
                 header_banner : HeaderBanners,
                 footer_banner : FooterBanners,
                 separator_template : SharedTemplates]
    /\ heap = [a \in Callers \cup {SharedArena} |->
                  IF a = SharedArena THEN SharedHeap(args) ELSE <<>>]
    /\ pc = [c \in Callers |-> "start"]
    /\ ret = [c \in Callers |-> NoRet]
    /\ lines = [c \in Callers |-> <<>>]
    /\ idx = [c \in Callers |-> 0]
    /\ framed = [c \in Callers |-> <<>>]
    /\ NoCli
    /\ NoNet

\* the three _read_banner calls, lines = [] and lines.extend(header_banner)
RenderStart(c) ==
    /\ pc[c] = "start"
    /\ heap' = [heap EXCEPT ![c] = <<args.header_banner, args.footer_banner,
                                     args.separator_template,
                                     args.header_banner>>]
    /\ lines' = [lines EXCEPT ![c] = lines_ref(c)]
    /\ idx' = [idx EXCEPT ![c] = 1]
    /\ pc' = [pc EXCEPT ![c] = "header_loop"]
    /\ UNCHANGED <<args, ret, framed, cli_vars, net_vars>>

\* a first loop that writes the framed lines back into the section
RenderFrameHeader_in_place(c) ==
    /\ pc[c] = "header_loop"
    /\ idx[c] <= Len(deref(heap, SectionsRef))
    /\ LET section == deref(heap, SectionsRef)[idx[c]]
       IN  IF section.name # HeaderName
           THEN /\ idx' = [idx EXCEPT ![c] = @ + 1]
                /\ UNCHANGED <<pc, ret, heap, framed>>
           ELSE \E call \in {call_frame_section_lines(
                            heap, c, section.lines,
                            separator_template_ref(c),
                            TRUE, 1, FALSE, FALSE)} :
                IF call.tag = "raised"
                THEN /\ pc' = [pc EXCEPT ![c] = "raised"]
                     /\ ret' = [ret EXCEPT ![c] = call.raised]
                     /\ UNCHANGED <<idx, heap, framed>>
                ELSE /\ heap' = extend([call.heap EXCEPT
                                           ![section.lines[1]][section.lines[2]] =
                                               deref(call.heap, call.ref)],
                                       lines[c], deref(call.heap, call.ref))
                     /\ framed' = [framed EXCEPT ![c] = call.ref]
                     /\ idx' = [idx EXCEPT ![c] = @ + 1]
                     /\ UNCHANGED <<pc, ret>>
    /\ UNCHANGED <<args, lines, cli_vars, net_vars>>

\* one pass of the first loop: lines.extend(framed_header if framed_header
\* else section_lines)
RenderFrameHeader(c) ==
    /\ pc[c] = "header_loop"
    /\ idx[c] <= Len(deref(heap, SectionsRef))
    /\ LET section == deref(heap, SectionsRef)[idx[c]]
       IN  IF section.name # HeaderName
           THEN /\ idx' = [idx EXCEPT ![c] = @ + 1]
                /\ UNCHANGED <<pc, ret, heap, framed>>
           ELSE \E call \in {call_frame_section_lines(
                            heap, c, section.lines,
                            separator_template_ref(c),
                            TRUE, 1, FALSE, FALSE)} :
                IF call.tag = "raised"
                THEN /\ pc' = [pc EXCEPT ![c] = "raised"]
                     /\ ret' = [ret EXCEPT ![c] = call.raised]
                     /\ UNCHANGED <<idx, heap, framed>>
                ELSE /\ heap' = extend(call.heap, lines[c],
                                       IF deref(call.heap, call.ref) # <<>>
                                       THEN deref(call.heap, call.ref)
                                       ELSE deref(call.heap, section.lines))
                     /\ framed' = [framed EXCEPT ![c] = call.ref]
                     /\ idx' = [idx EXCEPT ![c] = @ + 1]
                     /\ UNCHANGED <<pc, ret>>
    /\ UNCHANGED <<args, lines, cli_vars, net_vars>>

RenderEndHeaderLoop(c) ==
    /\ pc[c] = "header_loop"
    /\ idx[c] > Len(deref(heap, SectionsRef))
    /\ pc' = [pc EXCEPT ![c] = "section_loop"]
    /\ idx' = [idx EXCEPT ![c] = 1]
    /\ UNCHANGED <<args, ret, lines, heap, framed, cli_vars, net_vars>>

\* one pass of the second loop: lines.extend(separator) or
\* lines.append(name), then lines.extend(framed_lines)
RenderEmitSection(c) ==
    /\ pc[c] = "section_loop"
    /\ idx[c] <= Len(deref(heap, SectionsRef))
    /\ LET section == deref(heap, SectionsRef)[idx[c]]
           separator == call_build_separator(heap, c, section.name,
                                             separator_template_ref(c))
           emitted == extend(separator.heap, lines[c],
                             IF deref(separator.heap, separator.ref) # <<>>
                             THEN deref(separator.heap, separator.ref)
                             ELSE <<section.name>>)
       IN  IF section.name = HeaderName
           THEN /\ idx' = [idx EXCEPT ![c] = @ + 1]
                /\ UNCHANGED <<pc, ret, heap, framed>>
           ELSE \E call \in {call_frame_section_lines(
                            emitted, c, section.lines,
                            separator_template_ref(c),
                            section.name = SummaryName, 1, section.name # SummaryName, TRUE)} :
                IF call.tag = "raised"
                THEN /\ pc' = [pc EXCEPT ![c] = "raised"]
                     /\ ret' = [ret EXCEPT ![c] = call.raised]
                     /\ heap' = emitted
                     /\ UNCHANGED <<idx, framed>>
                ELSE /\ heap' = extend(call.heap, lines[c],
                                       deref(call.heap, call.ref))
                     /\ framed' = [framed EXCEPT ![c] = call.ref]
                     /\ idx' = [idx EXCEPT ![c] = @ + 1]
                     /\ UNCHANGED <<pc, ret>>
    /\ UNCHANGED <<args, lines, cli_vars, net_vars>>

RenderEndSectionLoop(c) ==
    /\ pc[c] = "section_loop"
    /\ idx[c] > Len(deref(heap, SectionsRef))
    /\ pc' = [pc EXCEPT ![c] = "footer"]
    /\ UNCHANGED <<args, ret, lines, idx, heap, framed, cli_vars, net_vars>>

\* the blank line and lines.extend(footer_banner)
RenderEmitFooter(c) ==
    /\ pc[c] = "footer"
    /\ heap' = [heap EXCEPT ![lines[c][1]][lines[c][2]] =
                   footer_lines_of(@, deref(heap, footer_banner_ref(c)))]
    /\ pc' = [pc EXCEPT ![c] = "join"]
    /\ UNCHANGED <<args, ret, lines, idx, framed, cli_vars, net_vars>>

\* return "\n".join(lines).rstrip() + "\n"
RenderReturn(c) ==
    /\ pc[c] = "join"
    /\ ret' = [ret EXCEPT ![c] = Returned(document_of(deref(heap, lines[c])))]
    /\ pc' = [pc EXCEPT ![c] = "done"]
    /\ UNCHANGED <<args, lines, idx, heap, framed, cli_vars, net_vars>>

NextShared ==
    \E c \in Callers :
        \/ RenderStart(c)
        \/ RenderFrameHeader(c)
        \/ RenderEndHeaderLoop(c)
        \/ RenderEmitSection(c)
        \/ RenderEndSectionLoop(c)
        \/ RenderEmitFooter(c)
        \/ RenderReturn(c)

SpecShared == InitShared /\ [][NextShared]_vars

(***************************************************************************)
(* Properties of two renders on shared sections (SpecShared).              *)
(***************************************************************************)
Finished(c) == pc[c] \in {"done", "raised"}

\* C12: two runs of render_nfo_from_sections on the same sections and the
\* same three banner files, one after the other or interleaved, end the
\* same way: both raise, or both return the same string.
C12_rerender_deterministic ==
    \A c \in Callers : \A d \in Callers :
        (Finished(c) /\ Finished(d)) =>
            /\ pc[c] = pc[d]
            /\ ret[c].tag = ret[d].tag
            /\ ret[c].tag = "ok" => ret[c].val = ret[d].val

\* both runs have returned the document of a framed Header and a padded
\* General section
C12_witness ==
    /\ pc["first"] = "done"
    /\ pc["second"] = "done"
    /\ ret["first"].val = ret["second"].val
    /\ Len(args.sections) = 2
    /\ args.sections[1].name = GeneralName
    /\ args.sections[2].name = HeaderName
    /\ args.separator_template = FullTemplate(24)
    /\ Len(ret["first"].val) > 24 * 7

\* the objects the callers passed in hold what they held at the call
InputsUnchanged == heap[SharedArena] = SharedHeap(args)

\* the banner lists of a call hold the content of the banner files
TemplatesUnchanged ==
    \A c \in Callers :
        pc[c] # "start" =>
            /\ deref(heap, header_banner_ref(c)) = args.header_banner
            /\ deref(heap, footer_banner_ref(c)) = args.footer_banner
            /\ deref(heap, separator_template_ref(c)) = args.separator_template

\* the list the framer returned last is an object of the call, neither an
\* input nor a banner nor the list named lines
FramedIsFresh ==
    \A c \in Callers :
        framed[c] # <<>> => framed[c][1] = c /\ framed[c][2] > lines_ref(c)[2]

\* a finished run returned the document of a run alone
ReturnsAsAlone ==
    \A c \in Callers :
        (pc[c] = "done") =>
            \E blank \in {<<>>, << <<>> >>} :
                ret[c].val = document_of(
                    (((args.header_banner
                       \o HeaderPart(args.sections, args.separator_template))
                       \o BodyPart(args.sections, args.separator_template))
                       \o blank) \o args.footer_banner)

\* C13: render_nfo_from_sections and the helpers it calls leave the list of
\* sections, every section's line list and every banner list unchanged, the
\* framer returns a list of its own even on its degraded path, and each of
\* two runs on the same sections returns what a run alone returns.
C13_inputs_unchanged ==
    /\ InputsUnchanged
    /\ TemplatesUnchanged
    /\ FramedIsFresh
    /\ ReturnsAsAlone

\* one run has returned while the other holds the copy the framer made of
\* a section's lines on its degraded path
C13_witness ==
    /\ pc["first"] = "done"
    /\ pc["second"] = "section_loop"
    /\ Len(args.separator_template) = 4
    /\ framed["second"] # <<>>
    /\ deref(heap, framed["second"]) = args.sections[1].lines
    /\ args.sections[1].name = HeaderName
    /\ heap[SharedArena] = SharedHeap(args)

(***************************************************************************)
(* cli.py: the interactive correction of the sections in main.  A run     *)
(* starts from the sections render_nfo_sections returns and ends when the *)
(* last section is accepted, or when a call raises.  The answers typed at *)
(* the prompts and what a new detection finds are the inputs.  Line        *)
(* numbers are 1-based as the user types them.                             *)
(***************************************************************************)
\* the lines changed by hand in one run
MaxEdits == 1

\* the automatic detections asked for in one run
MaxRefreshes == 2

NA == <<"N", "/", "A">>

\* line numbers (1-based) of the lines holding "N/A"
na_indices(some_lines) == {i \in 1..Len(some_lines) : HasSubstring(some_lines[i], NA)}

\* str.find, 1-based: the first place whole occurs in s, 0 when it does not
find(s, whole) ==
    IF ~HasSubstring(s, whole) THEN 0
    ELSE CHOOSE p \in 1..(Len(s) - Len(whole) + 1) :
            /\ SubSeq(s, p, p + Len(whole) - 1) = whole
            /\ \A q \in 1..(p - 1) : SubSeq(s, q, q + Len(whole) - 1) # whole

\* replace_line(lines, idx, new_value), at = idx + 1
replace_line(some_lines, at, new_value) ==
    LET value == IF strip(new_value) # <<>> THEN new_value ELSE NA
        line  == some_lines[at]
        cut   == find(line, <<" ", ":", " ">>)
    IN  [some_lines EXCEPT ![at] = IF cut > 0 THEN SubSeq(line, 1, cut - 1) \o <<" ", ":", " ">> \o value
                                    ELSE value]

\* lines.pop(line_idx - 1) alone
pop_line_alone(some_lines, at) ==
    SubSeq(some_lines, 1, at - 1) \o SubSeq(some_lines, at + 1, Len(some_lines))

\* lines.pop(line_idx - 1); if not lines: lines.append("N/A")
pop_line(some_lines, at) ==
    LET popped == SubSeq(some_lines, 1, at - 1) \o SubSeq(some_lines, at + 1, Len(some_lines))
    IN  IF popped = <<>> THEN <<NA>> ELSE popped

\* the characters re gives to the octal escapes \100 .. \176 (GRAVE is the backquote)
OctalChars == <<"@", "A", "B", "C", "D", "E", "F", "G", "H", "I", "J", "K", "L", "M", "N", "O", "P", "Q", "R", "S", "T", "U", "V", "W", "X", "Y", "Z", "[", "\\", "]", "^", "_", "GRAVE", "a", "b", "c", "d", "e", "f", "g", "h", "i", "j", "k", "l", "m", "n", "o", "p", "q", "r", "s", "t", "u", "v", "w", "x", "y", "z", "{", "|", "}", "~">>

IsOctal(c) == IsDigit(c) /\ digit_value(c) <= 7

\* What re makes of the template "\1{safe_value} ": a digit after \1 is read
\* with it, as an octal escape when two octal digits follow and as the
\* number of a group that does not exist otherwise.  A value with a
\* backslash is not enumerated.
expand_template(group1, safe_value) ==
    IF ~IsDigit(safe_value[1]) THEN Returned(group1 \o safe_value \o <<" ">>)
    ELSE IF Len(safe_value) >= 2 /\ IsOctal(safe_value[1]) /\ IsOctal(safe_value[2])
         THEN LET code == 64 + 8 * digit_value(safe_value[1]) + digit_value(safe_value[2])
              IN  Returned(<<IF code = 127 THEN "DEL" ELSE OctalChars[code - 63]>>
                           \o SubSeq(safe_value, 3, Len(safe_value)) \o <<" ">>)
         ELSE Raised("re.error")

\* last place of the run of white space that starts at from, from - 1 when there is none
RECURSIVE space_run_end(_, _)
space_run_end(s, from) ==
    IF from <= Len(s) /\ s[from] \in Whitespace THEN space_run_end(s, from + 1) ELSE from - 1

\* first place at or after from that holds a bar, Len(s) + 1 when there is none
RECURSIVE next_bar(_, _)
next_bar(s, from) ==
    IF from <= Len(s) /\ s[from] # "|" THEN next_bar(s, from + 1) ELSE from

\* re.sub(r"(key\s*)([^|]+)", template, rest), key = field + ":".  \s* takes
\* the white space after the key and gives one character back when [^|]+
\* would be left without any; the match runs to the next bar.
RECURSIVE sub_field(_, _, _)
sub_field(rest, key, safe_value) ==
    LET p == find(rest, key)
        after == p + Len(key)
    IN  IF p = 0 THEN rest
        ELSE IF after > Len(rest) \/ rest[after] = "|"
             THEN SubSeq(rest, 1, p) \o sub_field(SubSeq(rest, p + 1, Len(rest)), key, safe_value)
             ELSE LET run == space_run_end(rest, after)
                      g1_end == IF run = Len(rest) \/ rest[run + 1] = "|" THEN run - 1 ELSE run
                      bar == next_bar(rest, g1_end + 1)
                  IN  SubSeq(rest, 1, p - 1)
                      \o expand_template(SubSeq(rest, p, g1_end), safe_value).val
                      \o sub_field(SubSeq(rest, bar, Len(rest)), key, safe_value)

\* the pattern of replace_header_field matches somewhere in line
field_found(line, key) ==
    \E p \in 1..Len(line) :
        /\ SubSeq(line, p, p + Len(key) - 1) = key
        /\ p + Len(key) <= Len(line)
        /\ line[p + Len(key)] # "|"

\* replace_header_field(line, field, value)
replace_header_field(line, field, value) ==
    LET safe_value == IF strip(value) # <<>> THEN value ELSE NA
        key == field \o <<":">>
    IN  IF ~field_found(line, key) THEN Returned(line)
        ELSE IF expand_template(<<>>, safe_value).tag = "raised" THEN Raised("re.error")
        ELSE Returned(sub_field(line, key, safe_value))
\* what a detection can find: no movie, or one with a title and a date
FoundMovie ==
    [NoMovie EXCEPT !.given = TRUE, !.title = <<"D", "u", "n", "e">>, !.release_date = <<"2", "0", "2", "1", "-", "0", "9", "-", "1", "5">>]

EditMovies == {NoMovie, FoundMovie}

NoTech == [general |-> EmptyGeneral, videos |-> <<>>, audios |-> <<>>, subtitles |-> <<>>]

FoundTech ==
    [general |-> [EmptyGeneral EXCEPT !.duration_sec = <<59>>],
     videos |-> <<>>, audios |-> <<>>, subtitles |-> <<EmptySubtitle>>]

EditTechs == {NoTech, FoundTech}

\* the note resolve_movie returns with the movie
note_of(movie) == IF movie.given THEN <<"e", "x", "a", "c", "t">> ELSE <<>>

\* build_file_info(video_path, tech, hash_algo) for the one file of the run
build_file_info(tech) ==
    [size_bytes |-> IF truthy(tech.general.size_bytes) THEN tech.general.size_bytes ELSE <<2048>>,
     duration_sec |-> tech.general.duration_sec,
     hash |-> <<"M", "D", "5", " ", "c", "0", "f", "f", "e", "e">>]

\* section_map.get(name, []) and dict(sections).get(name, default)
section_get(some_sections, name, default) ==
    IF \E i \in 1..Len(some_sections) : some_sections[i].name = name
    THEN some_sections[CHOOSE i \in 1..Len(some_sections) :
                          /\ some_sections[i].name = name
                          /\ \A j \in (i + 1)..Len(some_sections) : some_sections[j].name # name].lines
    ELSE default

\* the sections main renders from its variables (a) after a detection
rendered(a) ==
    render_nfo_sections(a.movie, a.tech, a.file_info, a.match_note, a.title, a.year, a.source)

\* what a new detection returns: found.fails is the TmdbError of
\* resolve_movie, or the RuntimeError of extract_tech
Detections(name, a) ==
    IF name \in {<<"M", "o", "v", "i", "e">>, <<"H", "e", "a", "d", "e", "r">>}
    THEN IF a.no_tmdb \/ ~a.client THEN {[movie |-> a.movie, tech |-> a.tech, fails |-> FALSE]}
         ELSE [movie : {FoundMovie}, tech : {a.tech}, fails : BOOLEAN]
    ELSE IF name \in {<<"G", "e", "n", "e", "r", "a", "l">>, <<"V", "i", "d", "e", "o">>, <<"A", "u", "d", "i", "o">>, <<"S", "u", "b", "t", "i", "t", "l", "e", "s">>}
    THEN [movie : {a.movie}, tech : {FoundTech}, fails : BOOLEAN]
    ELSE {[movie |-> a.movie, tech |-> a.tech, fails |-> FALSE]}

\* refresh_section(name, manual): the updates, and the nonlocal variables
\* of main as the call leaves them
refresh_section(name, manual, a, found) ==
    IF name \in {<<"M", "o", "v", "i", "e">>, <<"H", "e", "a", "d", "e", "r">>}
    THEN IF a.no_tmdb THEN Returned([updates |-> <<>>, locals |-> a])
         ELSE IF ~a.client THEN Returned([updates |-> <<>>, locals |-> a])
         ELSE IF found.fails THEN Raised("TmdbError")
         ELSE LET b == [a EXCEPT !.movie = found.movie, !.match_note = note_of(found.movie)]
                  section_map == rendered(b)
              IN  Returned([updates |->
                              [n \in {<<"M", "o", "v", "i", "e">>} \cup (IF <<"H", "e", "a", "d", "e", "r">> \notin manual THEN {<<"H", "e", "a", "d", "e", "r">>} ELSE {})
                                 |-> section_get(section_map, n, <<>>)],
                            locals |-> b])
    ELSE IF name \in {<<"G", "e", "n", "e", "r", "a", "l">>, <<"V", "i", "d", "e", "o">>, <<"A", "u", "d", "i", "o">>, <<"S", "u", "b", "t", "i", "t", "l", "e", "s">>}
    THEN IF found.fails THEN Returned([updates |-> <<>>, locals |-> a])
         ELSE LET b == [a EXCEPT !.tech = found.tech, !.file_info = build_file_info(found.tech)]
                  section_map == rendered(b)
              IN  Returned([updates |->
                              [n \in {name} \cup (IF <<"H", "e", "a", "d", "e", "r">> \notin manual THEN {<<"H", "e", "a", "d", "e", "r">>} ELSE {})
                                 |-> section_get(section_map, n, <<>>)],
                            locals |-> b])
    ELSE IF name = <<"F", "i", "l", "e">>
    THEN LET b == [a EXCEPT !.file_info = build_file_info(a.tech)]
         IN  Returned([updates |-> [n \in {<<"F", "i", "l", "e">>} |-> section_get(rendered(b), n, <<>>)],
                       locals |-> b])
    ELSE Returned([updates |-> <<>>, locals |-> a])

\* sections = [(sec, updates.get(sec, sec_lines)) for sec, sec_lines in sections]
apply_updates(some_sections, updates) ==
    [i \in 1..Len(some_sections) |->
        [name |-> some_sections[i].name,
         lines |-> IF some_sections[i].name \in DOMAIN updates THEN updates[some_sections[i].name]
                   ELSE some_sections[i].lines]]
\* what the user types at "Source: "
SourceInputs == {<<>>, <<"W", "E", "B">>, <<"4", "K">>}

\* what the user types at "Nouvelle valeur: "
LineInputs == {<<>>, <<"W", "E", "B">>}

InitEdit ==
    /\ pc = "top"
    /\ ret = NoRet
    /\ idx = 0
    /\ heap = <<>>
    /\ framed = <<>>
    /\ \E no_tmdb \in BOOLEAN :
          args = [fn |-> "main", no_tmdb |-> no_tmdb, client |-> ~no_tmdb,
                  movie |-> NoMovie, match_note |-> note_of(NoMovie),
                  tech |-> NoTech, file_info |-> build_file_info(NoTech),
                  title |-> <<"D", "u", "n", "e", " ", ":", " ", "I", "I">>, year |-> <<>>, source |-> <<>>]
    /\ section_list = rendered(args)
    /\ lines = section_list[1].lines
    /\ manual_sections = {}
    /\ edits = 0
    /\ refreshes = 0
    /\ by_hand = {}
    /\ NoNet

\* name, of name, lines = sections[idx]
current_name == section_list[idx + 1].name

missing == na_indices(lines)

\* the Header shows "Source: N/A" (line 495)
header_source_missing ==
    /\ current_name = <<"H", "e", "a", "d", "e", "r">>
    /\ HasSubstring(lines[1], <<"S", "o", "u", "r", "c", "e", ":">>)
    /\ HasSubstring(lines[1], <<"S", "o", "u", "r", "c", "e", ":", " ", "N", "/", "A">>)

\* at "Section ... correcte ?" (line 535)
AtQuestion == pc = "ask" \/ (pc = "top" /\ missing = {})

\* a change of the list in place: lines and sections[idx][1] are one object
put_lines(new_lines) ==
    /\ lines' = new_lines
    /\ section_list' = [section_list EXCEPT ![idx + 1].lines = new_lines]

\* manual_sections.add(name)
mark_manual ==
    /\ manual_sections' = manual_sections \cup {current_name}
    /\ by_hand' = by_hand \cup {current_name}

\* lines 493-506, choice 1: the Source of the Header typed by hand
FixSource(new_value) ==
    /\ pc = "top"
    /\ edits < MaxEdits
    /\ missing # {}
    /\ header_source_missing
    /\ \E call \in {replace_header_field(lines[1], <<"S", "o", "u", "r", "c", "e">>, new_value)} :
          IF call.tag = "raised"
          THEN /\ pc' = "raised"
               /\ ret' = call
               /\ UNCHANGED <<args, lines, cli_vars>>
          ELSE /\ put_lines([lines EXCEPT ![1] = call.val])
               /\ args' = [args EXCEPT !.source = IF new_value # <<>> THEN new_value ELSE @]
               /\ mark_manual
               /\ edits' = edits + 1 /\ UNCHANGED refreshes
               /\ UNCHANGED <<pc, ret>>
    /\ UNCHANGED <<idx, heap, framed, net_vars>>

\* lines 511-534: a line holds N/A; it is replaced (1), left (2) or deleted (3)
FixMissing(line_idx, choice, new_value) ==
    /\ pc = "top"
    /\ missing # {}
    /\ line_idx \in 1..Len(lines)
    /\ CASE choice = 1 ->
              /\ edits < MaxEdits
              /\ put_lines(replace_line(lines, line_idx, new_value))
              /\ mark_manual
              /\ edits' = edits + 1 /\ UNCHANGED refreshes
              /\ UNCHANGED pc
         [] choice = 3 ->
              /\ edits < MaxEdits
              /\ put_lines(pop_line(lines, line_idx))
              /\ mark_manual
              /\ edits' = edits + 1 /\ UNCHANGED refreshes
              /\ UNCHANGED pc
         [] choice = 2 ->
              /\ pc' = "ask"
              /\ UNCHANGED <<lines, cli_vars>>
    /\ UNCHANGED <<args, ret, idx, heap, framed, net_vars>>

\* break, then lines 584-585: on to the next section
leave_section ==
    /\ idx' = idx + 1
    /\ pc' = IF idx + 1 < Len(section_list) THEN "top" ELSE "done"

\* line 535 answered yes
SectionCorrect ==
    /\ AtQuestion
    /\ leave_section
    /\ lines' = IF idx + 1 < Len(section_list) THEN section_list[idx + 2].lines ELSE lines
    /\ UNCHANGED <<args, ret, heap, framed, cli_vars, net_vars>>

\* line 582, "Section ... correcte maintenant ?": yes leaves the section
\* whose lines are now new_lines, no goes back to line 490
answer_now(correct_now, new_sections, new_lines) ==
    IF correct_now
    THEN /\ leave_section
         /\ lines' = IF idx + 1 < Len(new_sections) THEN new_sections[idx + 2].lines ELSE new_lines
    ELSE /\ pc' = "top"
         /\ lines' = new_lines
         /\ UNCHANGED idx

\* lines 541-552 and 581-583: a new automatic detection
Refresh(found, correct_now) ==
    /\ AtQuestion
    /\ refreshes < MaxRefreshes
    /\ found \in Detections(current_name, args)
    /\ \E call \in {refresh_section(current_name, manual_sections, args, found)} :
          IF call.tag = "raised"
          THEN /\ pc' = "raised"
               /\ ret' = call
               /\ UNCHANGED <<args, lines, idx, cli_vars>>
          ELSE /\ args' = call.val.locals
               /\ IF DOMAIN call.val.updates # {}
                  THEN /\ section_list' = apply_updates(section_list, call.val.updates)
                       /\ manual_sections' = manual_sections \ {current_name}
                  ELSE UNCHANGED <<section_list, manual_sections>>
               /\ answer_now(correct_now, section_list', section_get(section_list', current_name, lines))
               /\ refreshes' = refreshes + 1
               /\ UNCHANGED <<ret, edits, by_hand>>
    /\ UNCHANGED <<heap, framed, net_vars>>

\* a change of the list in place, then line 582
put_lines_now(correct_now, new_lines) ==
    /\ section_list' = [section_list EXCEPT ![idx + 1].lines = new_lines]
    /\ answer_now(correct_now, section_list, new_lines)

\* lines 553-583: a line changed by hand
EditLine(line_idx, choice, new_value, correct_now) ==
    /\ AtQuestion
    /\ line_idx \in 1..Len(lines)
    /\ IF HasSubstring(lines[line_idx], NA)
       THEN CASE choice = 1 /\ current_name = <<"H", "e", "a", "d", "e", "r">> /\ HasSubstring(lines[line_idx], <<"S", "o", "u", "r", "c", "e", ":">>) ->
                   /\ edits < MaxEdits
                   /\ \E call \in {replace_header_field(lines[line_idx], <<"S", "o", "u", "r", "c", "e">>, new_value)} :
                         IF call.tag = "raised"
                         THEN /\ pc' = "raised"
                              /\ ret' = call
                              /\ UNCHANGED <<args, lines, idx, cli_vars>>
                         ELSE /\ put_lines_now(correct_now, [lines EXCEPT ![line_idx] = call.val])
                              /\ args' = [args EXCEPT !.source = IF new_value # <<>> THEN new_value ELSE @]
                              /\ mark_manual
                              /\ edits' = edits + 1 /\ UNCHANGED refreshes
                              /\ UNCHANGED ret
              [] choice = 1 /\ ~(current_name = <<"H", "e", "a", "d", "e", "r">> /\ HasSubstring(lines[line_idx], <<"S", "o", "u", "r", "c", "e", ":">>)) ->
                   /\ edits < MaxEdits
                   /\ new_value \in LineInputs
                   /\ put_lines_now(correct_now, replace_line(lines, line_idx, new_value))
                   /\ mark_manual
                   /\ edits' = edits + 1 /\ UNCHANGED refreshes
                   /\ UNCHANGED <<args, ret>>
              [] choice = 2 ->
                   /\ answer_now(correct_now, section_list, lines)
                   /\ UNCHANGED <<args, ret, cli_vars>>
              [] choice = 3 ->
                   /\ edits < MaxEdits
                   /\ put_lines_now(correct_now, pop_line(lines, line_idx))
                   /\ mark_manual
                   /\ edits' = edits + 1 /\ UNCHANGED refreshes
                   /\ UNCHANGED <<args, ret>>
       ELSE /\ choice = 1
            /\ edits < MaxEdits
            /\ new_value \in LineInputs
            /\ put_lines_now(correct_now, replace_line(lines, line_idx, new_value))
            /\ mark_manual
            /\ edits' = edits + 1 /\ UNCHANGED refreshes
            /\ UNCHANGED <<args, ret>>
    /\ UNCHANGED <<heap, framed, net_vars>>

NextEdit ==
    \/ \E new_value \in SourceInputs : FixSource(new_value)
    \/ \E line_idx \in 1..3, choice \in 1..3, new_value \in LineInputs :
          (choice # 1 => new_value = <<>>) /\ FixMissing(line_idx, choice, new_value)
    \/ SectionCorrect
    \/ \E movie \in EditMovies, tech \in EditTechs, fails \in BOOLEAN, correct_now \in BOOLEAN :
          Refresh([movie |-> movie, tech |-> tech, fails |-> fails], correct_now)
    \/ \E line_idx \in 1..3, choice \in 1..3, new_value \in SourceInputs, correct_now \in BOOLEAN :
          (choice # 1 => new_value = <<>>) /\ EditLine(line_idx, choice, new_value, correct_now)

SpecEdit == InitEdit /\ [][NextEdit]_vars

(***************************************************************************)
(* The sections under interactive correction (SpecEdit).                   *)
(***************************************************************************)
EditedNames == [i \in 1..Len(section_list) |-> section_list[i].name]

\* the eight names in their order, and no section without a line
NamesAndLinesKept ==
    /\ EditedNames = EightNames
    /\ \A i \in 1..Len(section_list) : Len(section_list[i].lines) >= 1

\* the lines of the section under correction once the step is made
EditedLines == section_list'[idx + 1].lines

\* the step deletes line line_idx (choice 3)
DeleteStep(line_idx) ==
    \/ FixMissing(line_idx, 3, <<>>)
    \/ \E correct_now \in BOOLEAN : EditLine(line_idx, 3, <<>>, correct_now)

\* line line_idx is the Header line whose Source field "Nouvelle valeur" fills
SourceLine(line_idx) ==
    /\ current_name = <<"H", "e", "a", "d", "e", "r">>
    /\ HasSubstring(lines[line_idx], NA)
    /\ HasSubstring(lines[line_idx], <<"S", "o", "u", "r", "c", "e", ":">>)

\* the step replaces line line_idx by what the user typed (choice 1)
LineStep(line_idx, new_value) ==
    \/ FixMissing(line_idx, 1, new_value)
    \/ \E correct_now \in BOOLEAN :
          EditLine(line_idx, 1, new_value, correct_now) /\ ~SourceLine(line_idx)

\* the step writes what the user typed into the Source field of the Header
FieldStep(line_idx, new_value) ==
    \/ line_idx = 1 /\ FixSource(new_value)
    \/ \E correct_now \in BOOLEAN :
          EditLine(line_idx, 1, new_value, correct_now) /\ SourceLine(line_idx)

\* a line replaced by the empty value: the text before its first " : "
\* stays, when it has one
ExpectedAfterEmpty(line) ==
    IF HasSubstring(line, <<" ", ":", " ">>)
    THEN SubSeq(line, 1, find(line, <<" ", ":", " ">>) - 1) \o <<" ", ":", " ", "N", "/", "A">>
    ELSE NA

\* C27, as the code has it: through every run of the correction loop the
\* section list keeps the eight names in their order and every section keeps
\* at least one line; deleting the only line of a section leaves the single
\* line "N/A", deleting one of several leaves the others; replacing a line
\* by the empty value leaves "N/A" at its place, behind the text before the
\* first " : " of the line when the line has one, and the empty value typed
\* for the Source of the Header leaves "Source: N/A" in the Header line.
C27_sections_never_empty ==
    /\ []NamesAndLinesKept
    /\ [][\A line_idx \in 1..3 :
             /\ (DeleteStep(line_idx) /\ Len(lines) = 1) => EditedLines = <<NA>>
             /\ (DeleteStep(line_idx) /\ Len(lines) > 1) =>
                   EditedLines = SubSeq(lines, 1, line_idx - 1) \o SubSeq(lines, line_idx + 1, Len(lines))
             /\ LineStep(line_idx, <<>>) =>
                   EditedLines = [lines EXCEPT ![line_idx] = ExpectedAfterEmpty(lines[line_idx])]
             /\ (FieldStep(line_idx, <<>>) /\ pc' # "raised") =>
                   /\ Len(EditedLines) = Len(lines)
                   /\ HasSubstring(EditedLines[line_idx], <<"S", "o", "u", "r", "c", "e", ":", " ", "N", "/", "A">>)]_vars

\* C27 as stated: a line replaced by the empty value is the line "N/A"
C27_replaced_line_is_na ==
    /\ []NamesAndLinesKept
    /\ [][\A line_idx \in 1..3 :
             /\ (DeleteStep(line_idx) /\ Len(lines) = 1) => EditedLines = <<NA>>
             /\ LineStep(line_idx, <<>>) => EditedLines = [lines EXCEPT ![line_idx] = NA]]_vars

\* the run is over, two detections were asked for, and the title line of the
\* Movie section, replaced by the empty value, kept its text before " : "
C27_witness ==
    /\ pc = "done"
    /\ refreshes = 2
    /\ by_hand = {<<"M", "o", "v", "i", "e">>}
    /\ section_list[2].lines = <<<<"T", "i", "t", "l", "e", ":", " ", "D", "u", "n", "e", " ", ":", " ", "N", "/", "A">>>>

HeaderLines == section_list[1].lines

\* the step is a new automatic detection
RefreshStep ==
    \E found \in [movie : EditMovies, tech : EditTechs, fails : BOOLEAN], correct_now \in BOOLEAN :
        Refresh(found, correct_now)

\* C28: once the Header was edited by hand, no automatic detection, asked
\* for in whatever section, changes the lines of the Header.
C28_manual_header_survives ==
    [][(<<"H", "e", "a", "d", "e", "r">> \in by_hand /\ RefreshStep) => HeaderLines' = HeaderLines]_vars

(***************************************************************************)
(* json: the objects the providers answer with.  An object is the sequence *)
(* of its members in order, a value is an integer or a string; "e_acute"   *)
(* stands for the one character U+00E9.  Other JSON values (floats, lists, *)
(* nested objects, true, false, null) are not enumerated.                  *)
(***************************************************************************)
JsonInt(n) == [kind |-> "int", num |-> n, str |-> <<>>]
JsonStr(s) == [kind |-> "str", num |-> 0, str |-> s]

\* the characters of a string as json.dumps(..., ensure_ascii=True) writes them
RECURSIVE escaped(_)
escaped(s) ==
    IF s = <<>> THEN <<>>
    ELSE (CASE s[1] = "\"" -> <<"\\", "\"">>
            [] s[1] = "\\" -> <<"\\", "\\">>
            [] s[1] = NL -> <<"\\", "n">>
            [] s[1] = "e_acute" -> <<"\\", "u", "0", "0", "e", "9">>
            [] OTHER -> <<s[1]>>) \o escaped(Tail(s))

dumps_string(s) == <<"\"">> \o escaped(s) \o <<"\"">>

dumps_value(v) == IF v.kind = "int" THEN str_of_int(v.num) ELSE dumps_string(v.str)

RECURSIVE dumps_members(_)
dumps_members(obj) ==
    IF obj = <<>> THEN <<>>
    ELSE <<" ", " ">> \o dumps_string(obj[1].key) \o <<":", " ">> \o dumps_value(obj[1].value)
         \o (IF Len(obj) > 1 THEN <<",", NL>> \o dumps_members(Tail(obj)) ELSE <<>>)

\* json.dumps(payload, ensure_ascii=True, indent=2)
json_dumps(obj) ==
    IF obj = <<>> THEN <<"{", "}">>
    ELSE <<"{", NL>> \o dumps_members(obj) \o <<NL, "}">>

Fail == [ok |-> FALSE, val |-> <<>>, next |-> 0]

RECURSIVE skip_ws(_, _)
skip_ws(text, p) ==
    IF p <= Len(text) /\ text[p] \in Whitespace THEN skip_ws(text, p + 1) ELSE p

\* the string whose opening quote is before p
RECURSIVE scan_string(_, _, _)
scan_string(text, p, acc) ==
    IF p > Len(text) THEN Fail
    ELSE IF text[p] = "\"" THEN [ok |-> TRUE, val |-> acc, next |-> p + 1]
    ELSE IF text[p] = "\\"
         THEN IF p + 1 > Len(text) THEN Fail
              ELSE IF text[p + 1] \in {"\"", "\\"} THEN scan_string(text, p + 2, Append(acc, text[p + 1]))
              ELSE IF text[p + 1] = "n" THEN scan_string(text, p + 2, Append(acc, NL))
              ELSE IF text[p + 1] = "u" /\ p + 5 <= Len(text) /\ SubSeq(text, p + 2, p + 5) = <<"0", "0", "e", "9">>
                   THEN scan_string(text, p + 6, Append(acc, "e_acute"))
              ELSE Fail
    ELSE IF text[p] = NL THEN Fail
    ELSE scan_string(text, p + 1, Append(acc, text[p]))

RECURSIVE digits_end(_, _)
digits_end(text, p) ==
    IF p <= Len(text) /\ IsDigit(text[p]) THEN digits_end(text, p + 1) ELSE p

\* -?(0|[1-9][0-9]*)
scan_number(text, p) ==
    LET start == IF p <= Len(text) /\ text[p] = "-" THEN p + 1 ELSE p
        end   == IF start <= Len(text) /\ text[start] = "0" THEN start + 1 ELSE digits_end(text, start)
    IN  IF end = start THEN Fail
        ELSE [ok |-> TRUE,
              val |-> JsonInt(IF start > p THEN 0 - int_of(SubSeq(text, start, end - 1))
                              ELSE int_of(SubSeq(text, start, end - 1))),
              next |-> end]

scan_value(text, p) ==
    IF p <= Len(text) /\ text[p] = "\""
    THEN LET s == scan_string(text, p + 1, <<>>)
         IN  IF s.ok THEN [ok |-> TRUE, val |-> JsonStr(s.val), next |-> s.next] ELSE Fail
    ELSE scan_number(text, p)

\* the members of an object from the key at p on
RECURSIVE scan_members(_, _, _)
scan_members(text, p, acc) ==
    IF p > Len(text) \/ text[p] # "\"" THEN Fail
    ELSE LET k == scan_string(text, p + 1, <<>>)
         IN  IF ~k.ok THEN Fail
             ELSE LET c == skip_ws(text, k.next)
                  IN  IF c > Len(text) \/ text[c] # ":" THEN Fail
                      ELSE LET v == scan_value(text, skip_ws(text, c + 1))
                           IN  IF ~v.ok THEN Fail
                               ELSE LET d == skip_ws(text, v.next)
                                        more == Append(acc, [key |-> k.val, value |-> v.val])
                                    IN  IF d > Len(text) THEN Fail
                                        ELSE IF text[d] = "}" THEN [ok |-> TRUE, val |-> more, next |-> d + 1]
                                        ELSE IF text[d] = "," THEN scan_members(text, skip_ws(text, d + 1), more)
                                        ELSE Fail

\* json.loads(text) of a text that holds an object or is no JSON
json_loads(text) ==
    LET p == skip_ws(text, 1)
    IN  IF p > Len(text) \/ text[p] # "{" THEN Raised("JSONDecodeError")
        ELSE LET q == skip_ws(text, p + 1)
                 r == IF q <= Len(text) /\ text[q] = "}"
                      THEN [ok |-> TRUE, val |-> <<>>, next |-> q + 1]
                      ELSE scan_members(text, q, <<>>)
             IN  IF r.ok /\ skip_ws(text, r.next) > Len(text) THEN Returned(r.val)
                 ELSE Raised("JSONDecodeError")

(***************************************************************************)
(* tmdb_client.py, imdb_client.py: the request of a provider client and    *)
(* the movie cache of TmdbClient.  network is the record of the attempts   *)
(* of the call in progress, one entry per urlopen; an entry of the cache   *)
(* remembers in written_for the (movie_id, lang) it was written for.       *)
(***************************************************************************)
MaxRetries == 2

MaxCalls == 2

\* lang is None or "": no language
NoLang == <<>>

Langs == {NoLang, <<"d", "e", "f", "a", "u", "l", "t">>, <<"f", "r">>}

MovieIds == {1, 2}

AccentPayload == <<[key |-> <<"i", "d">>, value |-> JsonInt(2)], [key |-> <<"t", "i", "t", "l", "e">>, value |-> JsonStr(<<"e_acute", "\"", "a">>)]>>

\* what the server answers: an object on one line, an indented object, no JSON
Bodies == {<<"{", "\"", "i", "d", "\"", ":", "1", "}">>, json_dumps(AccentPayload), <<"<", "h", "t", "m", "l", ">">>}

\* how one urlopen, read and decode ends: with the text of the answer, with a
\* URLError, or with another exception (a timeout while reading, a
\* UnicodeDecodeError)
Outcomes == [error : {"none"}, text : Bodies] \cup [error : {"URLError", "OtherError"}, text : {<<>>}]

\* except (urllib.error.URLError, json.JSONDecodeError) of an URLError alone
caught_url_only(error) == error = "URLError"

\* except (urllib.error.URLError, json.JSONDecodeError)
caught(error) == error \in {"URLError", "JSONDecodeError"}

own_error(provider) == IF provider = "tmdb" THEN "TmdbError" ELSE "ImdbError"

\* not (self.token or self.api_key), not self.api_key
no_credential(client) ==
    IF client.provider = "tmdb" THEN client.token = <<>> /\ client.api_key = <<>>
    ELSE client.api_key = <<>>

Clients ==
    [provider : {"tmdb"}, token : {<<>>, <<"t">>}, api_key : {<<>>, <<"k">>}, retries : 0..MaxRetries]
    \cup [provider : {"imdb"}, token : {<<>>}, api_key : {<<>>, <<"k">>}, retries : 0..MaxRetries]

_cache_path(movie_id, lang) ==
    LET suffix == IF lang # <<>> THEN lang ELSE <<"d", "e", "f", "a", "u", "l", "t">>
    IN  <<"t", "m", "d", "b", "_">> \o str_of_int(movie_id) \o <<"_">> \o suffix \o <<".", "j", "s", "o", "n">>

CacheFiles == {_cache_path(movie_id, lang) : movie_id \in MovieIds, lang \in Langs}

Absent == [exists |-> FALSE, text |-> <<>>, written_for |-> <<>>]

EmptyCache == [file \in CacheFiles |-> Absent]

\* a cache whose file of (1, no language) was cut short
CorruptCache == [EmptyCache EXCEPT ![_cache_path(1, NoLang)] = [exists |-> TRUE, text |-> <<"{">>, written_for |-> <<1, NoLang>>]]

InitClient(some_clients, caches) ==
    /\ pc = "idle"
    /\ ret = NoRet
    /\ lines = <<>>
    /\ idx = 0
    /\ heap = <<>>
    /\ framed = <<>>
    /\ NoCli
    /\ \E client \in some_clients : args = [fn |-> "", client |-> client, movie_id |-> 0, lang |-> NoLang]
    /\ cache \in caches
    /\ network = <<>>
    /\ attempt = 0
    /\ last_error = "None"
    /\ calls = 0

InitRequest == InitClient(Clients, {EmptyCache})

InitMovie == InitClient({client \in Clients : client.provider = "tmdb" /\ client.api_key = <<>>}, {EmptyCache, CorruptCache})

begin_call(fn, movie_id, lang, at) ==
    /\ pc = "idle"
    /\ calls < MaxCalls
    /\ calls' = calls + 1
    /\ args' = [args EXCEPT !.fn = fn, !.movie_id = movie_id, !.lang = lang]
    /\ pc' = at
    /\ ret' = NoRet
    /\ network' = <<>>
    /\ attempt' = 0
    /\ last_error' = "None"
    /\ UNCHANGED <<lines, idx, heap, framed, cli_vars, cache>>

\* a caller (search_movie, get_external_ids, search_title, ...) calls _request
CallRequest == begin_call("_request", 0, NoLang, "request")

\* tmdb_client.py 66-68, imdb_client.py 63-66: the credential;
\* tmdb_client.py 81-82, imdb_client.py 73-74: range(self.retries + 1)
RequestCheck ==
    /\ pc = "request"
    /\ IF no_credential(args.client)
       THEN pc' = "idle" /\ ret' = Raised(own_error(args.client.provider))
       ELSE pc' = (IF 0 < args.client.retries + 1 THEN "attempt" ELSE "failed") /\ ret' = ret
    /\ UNCHANGED <<args, lines, idx, heap, framed, cli_vars, cache, network, attempt, last_error, calls>>

\* what _request returns to: get_movie goes on at line 108
returns_to == IF args.fn = "get_movie" THEN "store" ELSE "idle"

\* tmdb_client.py 83-92, imdb_client.py 75-84: one turn of the loop
RequestAttempt(outcome) ==
    /\ pc = "attempt"
    /\ LET decoded == IF outcome.error = "none" THEN json_loads(outcome.text) ELSE Raised(outcome.error)
           kind    == IF decoded.tag = "ok" THEN "ok" ELSE decoded.val
       IN  /\ network' = Append(network, [kind |-> kind, text |-> outcome.text])
           /\ IF decoded.tag = "ok"
              THEN /\ ret' = decoded
                   /\ pc' = returns_to
                   /\ UNCHANGED <<attempt, last_error>>
              ELSE IF caught(decoded.val)
              THEN /\ last_error' = decoded.val
                   /\ IF attempt < args.client.retries
                      THEN attempt' = attempt + 1 /\ pc' = pc
                      ELSE attempt' = attempt /\ pc' = "failed"
                   /\ ret' = ret
              ELSE /\ ret' = decoded
                   /\ pc' = "idle"
                   /\ UNCHANGED <<attempt, last_error>>
    /\ UNCHANGED <<args, lines, idx, heap, framed, cli_vars, cache, calls>>

\* tmdb_client.py 93, imdb_client.py 85
RequestFailed ==
    /\ pc = "failed"
    /\ ret' = Raised(own_error(args.client.provider))
    /\ pc' = "idle"
    /\ UNCHANGED <<args, lines, idx, heap, framed, cli_vars, cache, network, attempt, last_error, calls>>

Running == RequestCheck \/ (\E outcome \in Outcomes : RequestAttempt(outcome)) \/ RequestFailed

NextRequest == CallRequest \/ Running

\* the statements of _request follow one another, and urlopen has a timeout
SpecRequest == InitRequest /\ [][NextRequest]_vars /\ WF_vars(Running)

\* the attempts of the call in progress that failed with a URL or
\* JSON-decoding error
Retriable == {"URLError", "JSONDecodeError"}

AllFailed == \A i \in 1..Len(network) : network[i].kind \in Retriable

RequestOver == pc = "idle" /\ calls > 0

\* C29: a provider request makes at most retries + 1 network attempts and no
\* attempt after one that did not fail with a URL or JSON-decoding error; it
\* returns the payload of the first attempt that succeeds, which is its last;
\* it raises TmdbError / ImdbError exactly when all retries + 1 attempts
\* failed with a URL or JSON-decoding error or, after zero attempts, when no
\* credential is configured; and every request started comes to its end.
C29_bounded_retry ==
    /\ [](/\ Len(network) <= args.client.retries + 1
          /\ \A i \in 1..(Len(network) - 1) : network[i].kind \in Retriable
          /\ no_credential(args.client) => network = <<>>
          /\ (RequestOver /\ ret.tag = "ok") =>
                /\ network # <<>>
                /\ network[Len(network)].kind = "ok"
                /\ Returned(ret.val) = json_loads(network[Len(network)].text)
          /\ RequestOver =>
                ((ret = Raised(own_error(args.client.provider)))
                   <=> (\/ no_credential(args.client)
                        \/ Len(network) = args.client.retries + 1 /\ AllFailed)))
    /\ (pc = "request" ~> pc = "idle")

\* the default client (retries = 2) fails twice, once on a URL error and once
\* on an answer that is no JSON, and returns the object of the third answer
C29_witness ==
    /\ RequestOver
    /\ args.client.retries = 2
    /\ Len(network) = 3
    /\ network[1].kind = "URLError"
    /\ network[2].kind = "JSONDecodeError"
    /\ ret = Returned(AccentPayload)

\* a caller (find_movie) calls get_movie(movie_id, lang)
CallGetMovie(movie_id, lang) == begin_call("get_movie", movie_id, lang, "get_movie")

cache_path == _cache_path(args.movie_id, args.lang)

\* tmdb_client.py 99-107: a file that is there and decodes is returned, any
\* other case goes on to self._request
GetMovieCached ==
    /\ pc = "get_movie"
    /\ LET decoded == IF cache[cache_path].exists THEN json_loads(cache[cache_path].text)
                      ELSE Raised("FileNotFoundError")
       IN  IF decoded.tag = "ok"
           THEN pc' = "idle" /\ ret' = decoded
           ELSE pc' = "request" /\ ret' = ret
    /\ UNCHANGED <<args, lines, idx, heap, framed, cli_vars, cache, network, attempt, last_error, calls>>

\* tmdb_client.py 108-110: payload is what _request returned
GetMovieStore ==
    /\ pc = "store"
    /\ cache' = [cache EXCEPT ![cache_path] = [exists |-> TRUE, text |-> json_dumps(ret.val), written_for |-> <<args.movie_id, args.lang>>]]
    /\ pc' = "idle"
    /\ UNCHANGED <<args, ret, lines, idx, heap, framed, cli_vars, network, attempt, last_error, calls>>

NextMovie == (\E movie_id \in MovieIds, lang \in Langs : CallGetMovie(movie_id, lang)) \/ GetMovieCached \/ Running \/ GetMovieStore

SpecMovie == InitMovie /\ [][NextMovie]_vars

\* the cache holds an entry written for (movie_id, lang) that decodes as JSON
HasEntry(movie_id, lang) ==
    /\ cache[_cache_path(movie_id, lang)].exists
    /\ cache[_cache_path(movie_id, lang)].written_for = <<movie_id, lang>>
    /\ json_loads(cache[_cache_path(movie_id, lang)].text).tag = "ok"

\* get_movie has returned without a network request
ServedFromCache == pc = "idle" /\ args.fn = "get_movie" /\ ret.tag = "ok" /\ network = <<>>

\* C30: get_movie(id, lang) returns the cached payload with zero network
\* requests when an entry for (id, lang) exists and decodes as JSON, and
\* otherwise performs the request; a successful request writes the payload
\* under (id, lang) in a text that decodes to an equal payload, which the next
\* get_movie(id, lang) therefore returns without a request; nothing but a
\* successful request changes the cache; and a payload served from the cache
\* was written for the id and the language asked for.
C30_cache_keyed_by_id_and_lang ==
    /\ [][/\ (pc = "get_movie" /\ HasEntry(args.movie_id, args.lang)) =>
                /\ pc' = "idle"
                /\ ret' = json_loads(cache[cache_path].text)
                /\ network' = <<>>
          /\ (pc = "get_movie" /\ ~HasEntry(args.movie_id, args.lang)) => pc' = "request"
          /\ pc = "store" =>
                /\ cache'[cache_path].exists
                /\ cache'[cache_path].written_for = <<args.movie_id, args.lang>>
                /\ json_loads(cache'[cache_path].text) = ret
                /\ ret' = ret
          /\ cache' # cache =>
                /\ pc = "store"
                /\ network # <<>>
                /\ network[Len(network)].kind = "ok"]_vars
    /\ [](ServedFromCache => cache[cache_path].written_for = <<args.movie_id, args.lang>>)

====
